---- MODULE Spec2Model ----
(***************************************************************************)
(* A model of FileManager (FileManager.js): the sandboxing path resolver,  *)
(* the directory walker, and the operations built on them, over an         *)
(* explicit filesystem.                                                    *)
(*                                                                         *)
(* A character is a one-character string, a name is a sequence of          *)
(* characters, a java.io.File is the sequence of the names of its absolute *)
(* path (with "." and ".." kept as written), and the filesystem maps       *)
(* canonical paths to nodes.  The kernel's path lookup is modelled by      *)
(* lexical normalisation; there are no symbolic links.                     *)
(***************************************************************************)
EXTENDS Integers, Sequences, FiniteSets, TLC

VARIABLES
    fs,           \* the filesystem: canonical path -> node
    isSandboxed,  \* this.isSandboxed
    hist          \* the calls made so far, oldest first

vars == <<fs, isSandboxed, hist>>

(***************************************************************************)
(* Bounds of the model.                                                    *)
(***************************************************************************)
\* Longest path (in names) the filesystem accepts: longer ones fail as
\* ENAMETOOLONG does.
MaxDepth == 4
\* Number of public operations called in one run.
MaxOps == 1
\* Number of zip/unzip, and of remove, calls in the runs of those two kinds.
MaxTrip == 2

(***************************************************************************)
(* Characters, names and strings.                                          *)
(***************************************************************************)
\* The characters used, in the order of their code points.
Alphabet ==
    <<",", ".", "2", "T", "a", "b", "c", "d", "e", "f", "i", "n", "p", "r", "s", "t", "x",
      "y", "z">>

CharRank(c) == CHOOSE i \in 1..Len(Alphabet) : Alphabet[i] = c

\* -1, 0, 1: a against b, character by character (String.compareTo).
RECURSIVE CompareNames(_, _)
CompareNames(a, b) ==
    IF a = <<>> /\ b = <<>> THEN 0
    ELSE IF a = <<>> THEN -1
    ELSE IF b = <<>> THEN 1
    ELSE IF CharRank(Head(a)) < CharRank(Head(b)) THEN -1
    ELSE IF CharRank(Head(a)) > CharRank(Head(b)) THEN 1
    ELSE CompareNames(Tail(a), Tail(b))

StartsWith(s, prefix) ==
    /\ Len(prefix) <= Len(s)
    /\ SubSeq(s, 1, Len(prefix)) = prefix

EndsWith(s, suffix) ==
    /\ Len(suffix) <= Len(s)
    /\ SubSeq(s, Len(s) - Len(suffix) + 1, Len(s)) = suffix

\* String.lastIndexOf(c), 0-based; -1 when c does not occur.
LastIndexOf(s, c) ==
    LET at == {i \in 1..Len(s) : s[i] = c}
    IN  IF at = {} THEN -1 ELSE (CHOOSE i \in at : \A j \in at : j <= i) - 1

File_separator == <<"/">>
Dot == <<".">>
DotDot == <<".", ".">>
SDCARD == <<"s", "d", "c", "a", "r", "d">>
ZipSuffix == <<".", "z", "i", "p">>

(***************************************************************************)
(* java.io.File: paths.                                                    *)
(***************************************************************************)
\* null, as a File.
NullFile == << <<"<null>">> >>

\* The process's working directory: the paths the README gives
\* ("sdcard/msgbot") are relative to "/".
Cwd == <<>>

\* File.getCanonicalPath, as the names of the path: "." dropped, ".."
\* stepping up (and staying at the root).
RECURSIVE Normalize(_, _)
Normalize(segs, acc) ==
    IF segs = <<>> THEN acc
    ELSE IF Head(segs) = Dot \/ Head(segs) = <<>> THEN Normalize(Tail(segs), acc)
    ELSE IF Head(segs) = DotDot
         THEN Normalize(Tail(segs),
                        IF acc = <<>> THEN acc ELSE SubSeq(acc, 1, Len(acc) - 1))
    ELSE Normalize(Tail(segs), Append(acc, Head(segs)))

\* new File("") is the one File whose path has no names and is not the root.
EmptyFile == << <<>> >>

Canonical(file) == IF file = EmptyFile THEN Cwd ELSE Normalize(file, <<>>)

\* The path as a string: "/" for the root, else "/" + name for each name.
RECURSIVE PathString(_)
PathString(path) ==
    IF path = <<>> THEN <<>>
    ELSE File_separator \o Head(path) \o PathString(Tail(path))

getCanonicalPath(file) ==
    IF Canonical(file) = <<>> THEN File_separator ELSE PathString(Canonical(file))

\* File.getParentFile: lexical; null for the root.
getParentFile(file) ==
    IF file = <<>> \/ file = EmptyFile THEN NullFile
    ELSE SubSeq(file, 1, Len(file) - 1)

\* File.getName: the last name; "" for the root.
getName(file) == IF file = <<>> THEN <<>> ELSE file[Len(file)]

\* new File(parent, child)
ChildFile(parent, childSegs) == parent \o childSegs

(***************************************************************************)
(* A path given by the caller: abs says the string starts with "/", segs   *)
(* are the names between the separators.  The empty string has no names    *)
(* and is not absolute.                                                    *)
(***************************************************************************)
UserPath(abs, segs) == [abs |-> abs, segs |-> segs]
EmptyString == UserPath(FALSE, <<>>)

\* str + "," + rest, as the names of a path.
Comma(segs, rest) ==
    LET front == IF segs = <<>> THEN <<>> ELSE SubSeq(segs, 1, Len(segs) - 1)
        last == IF segs = <<>> THEN <<>> ELSE segs[Len(segs)]
    IN  IF rest.abs \/ rest.segs = <<>>
        THEN front \o <<last \o <<",">> >> \o rest.segs
        ELSE front \o <<last \o <<",">> \o Head(rest.segs)>> \o Tail(rest.segs)

\* String(userPath) for an array of paths: its elements joined with ",".
RECURSIVE StringOfArray(_)
StringOfArray(list) ==
    IF list = <<>> THEN EmptyString
    ELSE IF Len(list) = 1 THEN Head(list)
    ELSE UserPath(Head(list).abs, Comma(Head(list).segs, StringOfArray(Tail(list))))

\* new File(pathStr), made absolute against the working directory.
NewFile(up) ==
    IF up = EmptyString THEN EmptyFile
    ELSE IF up.abs THEN up.segs ELSE Cwd \o up.segs

\* pathStr.startsWith('sdcard/')
HasTrustedPrefix(up) == ~up.abs /\ Len(up.segs) >= 2 /\ up.segs[1] = SDCARD

\* this.basePath
basePath == <<SDCARD>>

\* The confinement test of _resolvePath.
IsConfined(canonicalPath, baseCanonicalPath) ==
    StartsWith(canonicalPath, baseCanonicalPath)

\* resolvedFile of _resolvePath: the path itself if it is absolute or
\* starts with "sdcard/", else the path under basePath.
resolvedFile(userPath) ==
    IF userPath.abs \/ HasTrustedPrefix(userPath)
    THEN NewFile(userPath)
    ELSE ChildFile(basePath, userPath.segs)

_resolvePath(sandboxed, userPath) ==
    IF ~sandboxed THEN NewFile(userPath)
    ELSE IF userPath = EmptyString THEN NullFile
    ELSE IF ~IsConfined(getCanonicalPath(resolvedFile(userPath)),
                        getCanonicalPath(basePath))
         THEN NullFile
         ELSE resolvedFile(userPath)

\* utils.getBaseName
getBaseName(name) ==
    LET dotIndex == LastIndexOf(name, ".")
    IN  IF dotIndex > 0 THEN SubSeq(name, 1, dotIndex) ELSE name

(***************************************************************************)
(* The filesystem.  A node is a directory or a file; a file's data is its  *)
(* bytes and, for a ZIP archive, the entries the archive holds (the ZIP    *)
(* container, which java.util.zip reads and writes, is kept as the list of *)
(* its entries).                                                           *)
(***************************************************************************)
NoData == [bytes |-> <<>>, entries |-> <<>>]
Bytes(b) == [bytes |-> b, entries |-> <<>>]
Archive(es) == [bytes |-> <<>>, entries |-> es]
DirNode(t) == [kind |-> "dir", data |-> NoData, mtime |-> t]
FileNode(d, t) == [kind |-> "file", data |-> d, mtime |-> t]

\* One archive entry: name are the names of its slash-separated path, dir
\* says the path ends with "/" (ZipEntry.isDirectory).
ZipEntry(name, dir, data) == [name |-> name, dir |-> dir, data |-> data]

Put(f, p, node) == [q \in DOMAIN f \cup {p} |-> IF q = p THEN node ELSE f[q]]
Drop(f, p) == [q \in DOMAIN f \ {p} |-> f[q]]

IsPath(file) == file # NullFile /\ file # EmptyFile

exists(f, file) == IsPath(file) /\ Canonical(file) \in DOMAIN f
isDirectory(f, file) == exists(f, file) /\ f[Canonical(file)].kind = "dir"
isFile(f, file) == exists(f, file) /\ f[Canonical(file)].kind = "file"
lastModified(f, file) == IF exists(f, file) THEN f[Canonical(file)].mtime ELSE 0

\* The size of the ZIP container of these entries (local header, name and
\* data of each entry, stored; then the end record).
RECURSIVE ContainerLength(_)
ContainerLength(es) ==
    IF es = <<>> THEN 0
    ELSE 30 + Len(PathString(Head(es).name)) + Len(Head(es).data.bytes)
         + ContainerLength(Head(es).data.entries) + ContainerLength(Tail(es))

\* File.length()
length(f, file) ==
    IF ~isFile(f, file) THEN 0
    ELSE LET d == f[Canonical(file)].data
         IN  Len(d.bytes) + ContainerLength(d.entries)

ChildPaths(f, p) == {q \in DOMAIN f : Len(q) = Len(p) + 1 /\ SubSeq(q, 1, Len(p)) = p}

\* p is q or lies under q.
Under(p, q) == Len(q) <= Len(p) /\ SubSeq(p, 1, Len(q)) = q
StrictlyUnder(p, q) == Under(p, q) /\ p # q

\* The names in a set, as a sequence in ascending order.
RECURSIVE SortedNames(_)
SortedNames(S) ==
    IF S = {} THEN <<>>
    ELSE LET m == CHOOSE x \in S : \A y \in S : CompareNames(x, y) <= 0
         IN  <<m>> \o SortedNames(S \ {m})

Reverse(s) == [i \in 1..Len(s) |-> s[Len(s) + 1 - i]]

\* File.listFiles() is null unless the file is a directory, and for a
\* directory that cannot be read.
ListsNull(f, file, env) == ~isDirectory(f, file) \/ Canonical(file) \in env.unreadable

\* File.listFiles(): the children in the order the filesystem lists them,
\* which is ascending or, with env.rev, descending by name (<<>> for null).
listFiles(f, file, env) ==
    IF ListsNull(f, file, env) THEN <<>>
    ELSE LET names == SortedNames({q[Len(q)] : q \in ChildPaths(f, Canonical(file))})
             listed == IF env.rev THEN Reverse(names) ELSE names
         IN  [i \in 1..Len(listed) |-> ChildFile(file, <<listed[i]>>)]

\* Whether the filesystem lets this path be created, written or deleted.
Permits(p, env) == p \notin env.deny /\ Len(p) <= MaxDepth

\* File.mkdir()
mkdir(f, file, env) ==
    LET p == Canonical(file)
        ok == /\ IsPath(file)
              /\ p # <<>>
              /\ p \notin DOMAIN f
              /\ Permits(p, env)
              /\ SubSeq(p, 1, Len(p) - 1) \in DOMAIN f
              /\ f[SubSeq(p, 1, Len(p) - 1)].kind = "dir"
    IN  [fs |-> IF ok THEN Put(f, p, DirNode(env.now)) ELSE f, ok |-> ok]

\* File.mkdirs(): false when the path exists; else makes the missing
\* ancestors, as far as it gets, and then the directory.
RECURSIVE mkdirs(_, _, _)
mkdirs(f, file, env) ==
    IF exists(f, file) \/ ~IsPath(file) THEN [fs |-> f, ok |-> FALSE]
    ELSE LET first == mkdir(f, file, env)
             canonFile == Canonical(file)
         IN  IF first.ok THEN first
             ELSE IF canonFile = <<>> THEN [fs |-> f, ok |-> FALSE]
             ELSE LET parent == SubSeq(canonFile, 1, Len(canonFile) - 1)
                      up == mkdirs(f, parent, env)
                  IN  IF up.ok \/ exists(up.fs, parent)
                      THEN mkdir(up.fs, canonFile, env)
                      ELSE [fs |-> up.fs, ok |-> FALSE]

\* File.delete(): a file, or an empty directory.
File_delete(f, file, env) ==
    LET p == Canonical(file)
        ok == /\ exists(f, file)
              /\ p # <<>>
              /\ Permits(p, env)
              /\ ChildPaths(f, p) = {}
    IN  [fs |-> IF ok THEN Drop(f, p) ELSE f, ok |-> ok]

\* The subtree at canonical path p moved to canonical path q.
Moved(f, p, q) ==
    LET kept == {r \in DOMAIN f : ~Under(r, p) /\ ~Under(r, q)}
        gone == {r \in DOMAIN f : Under(r, p)}
        to(r) == q \o SubSeq(r, Len(p) + 1, Len(r))
    IN  [r \in kept \cup {to(x) : x \in gone} |->
            IF r \in kept THEN f[r]
            ELSE f[CHOOSE x \in gone : to(x) = r]]

\* File.renameTo(dest): rename(2).  It fails across filesystems
\* (env.xdev), into the source's own subtree, onto a node of the other
\* kind or a directory that is not empty, and where the filesystem does
\* not permit it.
renameTo(f, file, dest, env) ==
    LET p == Canonical(file)
        q == Canonical(dest)
        same == exists(f, file) /\ IsPath(dest) /\ p = q
        ok == /\ exists(f, file) /\ IsPath(dest)
              /\ p # <<>> /\ q # <<>>
              /\ ~env.xdev
              /\ Permits(p, env) /\ Permits(q, env)
              /\ ~Under(q, p) /\ ~Under(p, q)
              /\ SubSeq(q, 1, Len(q) - 1) \in DOMAIN f
              /\ f[SubSeq(q, 1, Len(q) - 1)].kind = "dir"
              /\ \A r \in DOMAIN f : Under(r, p) =>
                     Len(q) + Len(r) - Len(p) <= MaxDepth
              /\ q \in DOMAIN f =>
                     /\ f[q].kind = f[p].kind
                     /\ ChildPaths(f, q) = {}
    IN  IF same THEN [fs |-> f, ok |-> TRUE]
        ELSE [fs |-> IF ok THEN Moved(f, p, q) ELSE f, ok |-> ok]

\* new FileInputStream(file): whether it opens.
CanRead(f, file) == isFile(f, file)

\* new FileOutputStream(file): creates the file, or truncates it.
FileOutputStream(f, file, env) ==
    LET p == Canonical(file)
        ok == /\ IsPath(file)
              /\ p # <<>>
              /\ Permits(p, env)
              /\ ~isDirectory(f, file)
              /\ SubSeq(p, 1, Len(p) - 1) \in DOMAIN f
              /\ f[SubSeq(p, 1, Len(p) - 1)].kind = "dir"
    IN  [fs |-> IF ok THEN Put(f, p, FileNode(NoData, env.now)) ELSE f, ok |-> ok]

\* The buffer of _copyStream.
BufferSize == 4096

Min(a, b) == IF a <= b THEN a ELSE b

\* _copyStream: the bytes of the source from position pos on, read one
\* buffer at a time and written after out.
RECURSIVE _copyStream(_, _, _)
_copyStream(source, pos, out) ==
    LET bytesRead == Min(BufferSize, Len(source) - pos)
    IN  IF bytesRead <= 0 THEN out
        ELSE _copyStream(source, pos + bytesRead,
                         out \o SubSeq(source, pos + 1, pos + bytesRead))

\* What a stream opened on the file delivers: its data as it now is.
StreamOf(f, file) ==
    LET d == f[Canonical(file)].data
    IN  [bytes |-> _copyStream(d.bytes, 0, <<>>), entries |-> d.entries]

\* The primitive throws whenever it is called during the call.
Throws(env, primitive) == primitive \in env.throws

\* _copyStream(fis, fos) in _copyFile, both streams open on f: write throws
\* at the first buffer, if there is one to write.
Written(f, sourceFile, destFile, env) ==
    IF Throws(env, "OutputStream.write") /\ length(f, sourceFile) > 0
    THEN [fs |-> f, err |-> TRUE, open |-> {}]
    ELSE [fs |-> Put(f, Canonical(destFile), FileNode(StreamOf(f, sourceFile), env.now)),
          err |-> FALSE, open |-> {}]

\* The finally of _copyFile with both streams open: fis.close(), then
\* fos.close(); what the first throws leaves the second stream open.
ClosedBoth(r, env) ==
    IF Throws(env, "FileInputStream.close")
    THEN [r EXCEPT !.err = TRUE, !.open = {"_copyFile.fos"}]
    ELSE IF Throws(env, "FileOutputStream.close") THEN [r EXCEPT !.err = TRUE]
    ELSE r

\* _copyFile: result.err says that it threw, result.open names the streams
\* it left open.
_copyFile(f, sourceFile, destFile, env) ==
    IF ~CanRead(f, sourceFile) THEN [fs |-> f, err |-> TRUE, open |-> {}]
    ELSE LET fos == FileOutputStream(f, destFile, env)
         IN  IF ~fos.ok THEN [fs |-> f, err |-> TRUE, open |-> {}]
             ELSE ClosedBoth(Written(fos.fs, sourceFile, destFile, env), env)

(***************************************************************************)
(* Path strings.                                                           *)
(***************************************************************************)
\* File.getAbsolutePath(), as a string.
getAbsolutePath(file) ==
    IF file = <<>> \/ file = EmptyFile THEN File_separator ELSE PathString(file)

\* String.substring(start), 0-based.
substring(s, start) == SubSeq(s, start + 1, Len(s))

\* The names of a path string: the pieces between separators, empty pieces
\* dropped as new File(...) drops them.
RECURSIVE Split(_, _, _)
Split(s, cur, acc) ==
    IF s = <<>> THEN (IF cur = <<>> THEN acc ELSE Append(acc, cur))
    ELSE IF <<Head(s)>> = File_separator
         THEN Split(Tail(s), <<>>, IF cur = <<>> THEN acc ELSE Append(acc, cur))
    ELSE Split(Tail(s), Append(cur, Head(s)), acc)

\* new File(parent, childString)
NewChild(parent, childString) == ChildFile(parent, Split(childString, <<>>, <<>>))

\* The absolute path of a File, given back to a public operation.
AsUserPath(file) == IF file = EmptyFile THEN UserPath(TRUE, <<>>) ELSE UserPath(TRUE, file)

\* sourceRootPath of copy and zip: the absolute path, ending in a separator.
SourceRootPath(source) ==
    IF EndsWith(getAbsolutePath(source), File_separator)
    THEN getAbsolutePath(source)
    ELSE getAbsolutePath(source) \o File_separator

(***************************************************************************)
(* _traverseDirectory.  The visitors are those of deleteDirectory          *)
(* ("delete"), getStorageSize ("size"), copy ("copy") and zip ("zip"); st  *)
(* is the filesystem and the context as the walk goes, st.err says that a  *)
(* visitor threw, which ends the walk; ctx holds what the visitors only    *)
(* read.  st.visits lists the calls of the visitors as they are made, each  *)
(* with the File it was given, st.open the streams left open.              *)
(***************************************************************************)
WalkState(f) ==
    [fs |-> f, err |-> FALSE, success |-> TRUE, totalSize |-> 0, zos |-> <<>>,
     visits |-> <<>>, open |-> {}]

\* The filesystem without the node at p and what is under it.
Gone(f, p) == [q \in {r \in DOMAIN f : ~Under(r, p)} |-> f[q]]

\* Another process deletes env.vanish.path while the call runs: when the
\* walk has it "listed" (listFiles has returned it, walk has not looked at
\* it) or "checked" (isFile or isDirectory has returned true, the visitor
\* has not yet acted).  f is the filesystem the next step finds.
Vanishes(f, env, file, when) ==
    IF env.vanish.when = when /\ IsPath(file) /\ env.vanish.path = Canonical(file)
    THEN Gone(f, env.vanish.path) ELSE f

Vanished(st, env, file, when) == [st EXCEPT !.fs = Vanishes(st.fs, env, file, when)]

\* onDir(currentFile, context) or onFile(currentFile, context) is called.
Visited(st, callback, currentFile) ==
    [st EXCEPT !.visits = Append(st.visits, <<callback, currentFile>>)]

\* ZipOutputStream.putNextEntry .. closeEntry: the entry is in the stream
\* and in the archive file behind it.
WriteEntry(st, ctx, entry) ==
    [st EXCEPT !.zos = Append(st.zos, entry),
               !.fs = Put(st.fs, Canonical(ctx.zipFile),
                          FileNode(Archive(Append(st.zos, entry)), ctx.env.now))]

\* A variant in which a delete that fails ends the walk.
DeletedOrStopped(st, r) ==
    [st EXCEPT !.fs = r.fs, !.success = st.success /\ r.ok, !.err = ~r.ok]

\* if (!file.delete()) context.success = false
Deleted(st, r) == [st EXCEPT !.fs = r.fs, !.success = st.success /\ r.ok]

onDir(who, dir, st, ctx) ==
    CASE who = "delete" -> Deleted(st, File_delete(st.fs, dir, ctx.env))
      [] who = "copy" ->
           LET relativePath == substring(getAbsolutePath(dir), Len(ctx.sourceRootPath))
               newDestDir == NewChild(ctx.resultRoot, relativePath)
           IN  IF Len(relativePath) > 0 /\ ~exists(st.fs, newDestDir)
               THEN [st EXCEPT !.fs = mkdirs(st.fs, newDestDir, ctx.env).fs]
               ELSE st
      [] who = "zip" ->
           LET children == listFiles(st.fs, dir, ctx.env)
               isNull == ListsNull(st.fs, dir, ctx.env)
               entryName == substring(getAbsolutePath(dir), Len(ctx.sourceRootPath))
                            \o File_separator
           IN  IF (isNull \/ Len(children) = 0) /\ Len(entryName) > 1
               THEN WriteEntry(st, ctx, ZipEntry(entryName, TRUE, NoData))
               ELSE st
      [] OTHER -> st

onFile(who, file, st, ctx) ==
    CASE who = "delete" -> Deleted(st, File_delete(st.fs, file, ctx.env))
      [] who = "size" ->
           [st EXCEPT !.totalSize = st.totalSize + length(st.fs, file)]
      [] who = "copy" ->
           LET relativePath == substring(getAbsolutePath(file), Len(ctx.sourceRootPath))
               r == _copyFile(st.fs, file, NewChild(ctx.resultRoot, relativePath), ctx.env)
           IN  [st EXCEPT !.fs = r.fs, !.err = r.err, !.open = st.open \cup r.open]
      [] who = "zip" ->
           LET entryName == substring(getAbsolutePath(file), Len(ctx.sourceRootPath))
           IN  IF ~CanRead(st.fs, file) THEN [st EXCEPT !.err = TRUE]
               ELSE IF Throws(ctx.env, "OutputStream.write") /\ length(st.fs, file) > 0
               THEN [st EXCEPT !.err = TRUE]
               ELSE [WriteEntry(st, ctx, ZipEntry(entryName, FALSE, StreamOf(st.fs, file)))
                        EXCEPT !.err = Throws(ctx.env, "FileInputStream.close")]
      [] OTHER -> st

RECURSIVE walk(_, _, _, _, _)
RECURSIVE walkChildren(_, _, _, _, _, _)

\* The steps of traverse(currentFile), each from the state the one before
\* it left: onDir before the children, the children, onFile, onDir after.
visitBefore(who, order, currentFile, st, ctx) ==
    IF isDirectory(st.fs, currentFile) /\ order = "pre-order"
    THEN onDir(who, currentFile,
               Visited(Vanished(st, ctx.env, currentFile, "checked"), "onDir", currentFile),
               ctx)
    ELSE st

visitChildren(who, order, currentFile, st, ctx) ==
    IF ~st.err /\ isDirectory(st.fs, currentFile)
    THEN walkChildren(who, order, listFiles(st.fs, currentFile, ctx.env), 1, st, ctx)
    ELSE st

visitFile(who, currentFile, st, ctx) ==
    IF ~st.err /\ isFile(st.fs, currentFile)
    THEN onFile(who, currentFile,
                Visited(Vanished(st, ctx.env, currentFile, "checked"), "onFile", currentFile),
                ctx)
    ELSE st

\* A variant that calls onDir after the children in either order.
visitAfterAlways(who, order, currentFile, st, ctx) ==
    IF ~st.err /\ isDirectory(st.fs, currentFile)
    THEN onDir(who, currentFile, Visited(st, "onDir", currentFile), ctx) ELSE st

visitAfter(who, order, currentFile, st, ctx) ==
    IF ~st.err /\ isDirectory(st.fs, currentFile) /\ order = "post-order"
    THEN onDir(who, currentFile,
               Visited(Vanished(st, ctx.env, currentFile, "checked"), "onDir", currentFile),
               ctx)
    ELSE st

walk(who, order, currentFile, st, ctx) ==
    visitAfter(who, order, currentFile,
        visitFile(who, currentFile,
            visitChildren(who, order, currentFile,
                visitBefore(who, order, currentFile, st, ctx), ctx), ctx), ctx)

walkChildren(who, order, children, i, st, ctx) ==
    IF st.err \/ i > Len(children) THEN st
    ELSE walkChildren(who, order, children, i + 1,
                      walk(who, order, children[i],
                           Vanished(st, ctx.env, children[i], "listed"), ctx),
                      ctx)

_traverseDirectory(who, order, path, st, ctx) ==
    IF ~exists(st.fs, path) THEN st ELSE walk(who, order, path, st, ctx)

\* What the visitors read: the faults and the clock (env), and the roots.
Context(env, source, resultRoot, zipFile) ==
    [env |-> env, sourceRootPath |-> SourceRootPath(source),
     resultRoot |-> resultRoot, zipFile |-> zipFile]

(***************************************************************************)
(* The public operations.  Each is an operator from the filesystem, the    *)
(* instance and the arguments to a result: the filesystem after the call   *)
(* and what the call returns.  ret is "true", "false", "null" or "value"   *)
(* (or, from getDirectoryTree, InvalidPattern); with "value", file is the  *)
(* path returned, num the number (in hundredths) and lines the text;       *)
(* visits are the callbacks of the walk the call made and open the streams *)
(* it opened and did not close.  env                                       *)
(* holds what the host decides during the call: deny (the paths it lets    *)
(* nobody create, write or delete), xdev (rename fails: another            *)
(* filesystem), rev (the listing order), throws (the primitives that       *)
(* throw) and now (the clock).                                             *)
(***************************************************************************)
Result(f, ret) ==
    [fs |-> f, ret |-> ret, file |-> NullFile, num |-> 0, lines |-> <<>>,
     visits |-> <<>>, open |-> {}]

\* ret of a call that returned nothing: an exception left it.
Escaped == "throws"

Bool(b) == IF b THEN "true" ELSE "false"

\* A variant that returns true whatever context.success is.
SucceededRegardless(st) == [Result(st.fs, "true") EXCEPT !.visits = st.visits]

\* What a call returns that ran to its end: the filesystem as st left it and
\* st.success, or that nothing threw.
Succeeded(st) == [Result(st.fs, Bool(st.success)) EXCEPT !.visits = st.visits]
Completed(st) == [Result(st.fs, Bool(~st.err)) EXCEPT !.open = st.open]
CompletedWalk(st) ==
    [Result(st.fs, Bool(~st.err)) EXCEPT !.visits = st.visits, !.open = st.open]

\* The finally of zip and unzip: the outer stream is closed, then the one
\* beneath it; if the first close throws, the second is not called, and
\* the stream beneath is open unless the outer one had closed it.
ClosedOver(result, env, primitive, beneath) ==
    IF Throws(env, primitive) /\ ~env.beneath
    THEN [result EXCEPT !.open = result.open \cup {beneath}]
    ELSE result

\* What _traverseDirectory returns: the context, of which num is totalSize.
Traversed(context) ==
    [Result(context.fs, "value") EXCEPT !.num = context.totalSize,
                                        !.visits = context.visits]

\* A variant of createDirectory that returns what mkdirs returns, false for
\* a path that exists.
createDirectoryStrict(f, sandboxed, path, env) ==
    LET file == _resolvePath(sandboxed, path)
    IN  IF file = NullFile THEN Result(f, "false")
        ELSE LET r == mkdirs(f, file, env) IN Result(r.fs, Bool(r.ok))

createDirectory(f, sandboxed, path, env) ==
    LET file == _resolvePath(sandboxed, path)
    IN  IF file = NullFile THEN Result(f, "false")
        ELSE IF Throws(env, "File.exists") THEN Result(f, "false")
        ELSE IF exists(f, file) THEN Result(f, "true")
        ELSE LET r == mkdirs(f, file, env) IN Result(r.fs, Bool(r.ok))

deleteDirectory(f, sandboxed, path, env) ==
    LET file == _resolvePath(sandboxed, path)
    IN  IF file = NullFile THEN Result(f, "false")
        ELSE IF Throws(env, "File.exists") THEN Result(f, "false")
        ELSE IF ~exists(f, file) THEN Result(f, "true")
        ELSE IF ~isDirectory(f, file)
             THEN LET r == File_delete(f, file, env) IN Result(r.fs, Bool(r.ok))
        ELSE Succeeded(_traverseDirectory("delete", "post-order", file, WalkState(f),
                                          Context(env, file, NullFile, NullFile)))

\* A variant of remove that reports a path that does not exist as a failure.
removeStrict(f, sandboxed, path, env) ==
    LET file == _resolvePath(sandboxed, path)
    IN  IF file = NullFile \/ ~exists(f, file) THEN Result(f, "false")
        ELSE IF isDirectory(f, file)
             THEN deleteDirectory(f, sandboxed, AsUserPath(file), env)
        ELSE LET r == File_delete(f, file, env) IN Result(r.fs, Bool(r.ok))

remove(f, sandboxed, path, env) ==
    LET file == _resolvePath(sandboxed, path)
    IN  IF file = NullFile THEN Result(f, "false")
        ELSE IF Throws(env, "File.exists") THEN Result(f, "false")
        ELSE IF ~exists(f, file) THEN Result(f, "true")
        ELSE IF isDirectory(f, file)
             THEN deleteDirectory(f, sandboxed, AsUserPath(file), env)
        ELSE LET r == File_delete(f, file, env) IN Result(r.fs, Bool(r.ok))

KILO == 1024

RECURSIVE DivideBy(_, _, _)
DivideBy(n, d, times) == IF times = 0 THEN n ELSE DivideBy(n \div d, d, times - 1)

\* String.toLowerCase, on the unit names used.
UnitToLowerCase(unit) == IF unit = "KB" THEN "kb" ELSE unit

\* How often _convertSize divides by KILO.
Divisions(unit) ==
    CASE UnitToLowerCase(unit) = "b" -> 0
      [] UnitToLowerCase(unit) = "kb" -> 1
      [] UnitToLowerCase(unit) = "gb" -> 3
      [] UnitToLowerCase(unit) = "tb" -> 4
      [] OTHER -> 2

\* _convertSize, in hundredths: Number(size.toFixed(2)) is size rounded to
\* the nearest hundredth, a tie going up; with size = bytes / KILO^k that is
\* floor((floor(200 * bytes / KILO^k) + 1) / 2) hundredths.
_convertSize(bytes, unit) == (DivideBy(200 * bytes, KILO, Divisions(unit)) + 1) \div 2

\* A variant of getStorageSize that adds up the files directly in the
\* directory and does not go into its sub-directories.
RECURSIVE SumOfLengths(_, _)
SumOfLengths(f, files) ==
    IF files = <<>> THEN 0
    ELSE length(f, Head(files)) + SumOfLengths(f, Tail(files))

getStorageSizeShallow(f, sandboxed, path, unit, env) ==
    LET targetUnit == IF unit = "" THEN "mb" ELSE unit
        file == _resolvePath(sandboxed, path)
    IN  IF file = NullFile \/ ~exists(f, file) THEN Result(f, "null")
        ELSE IF isFile(f, file)
             THEN [Result(f, "value") EXCEPT !.num = _convertSize(length(f, file), targetUnit)]
        ELSE [Result(f, "value") EXCEPT
                 !.num = _convertSize(SumOfLengths(f, listFiles(f, file, env)), targetUnit)]

\* What getStorageSize returns of a directory: context.totalSize, converted.
Sized(f, targetUnit, context) ==
    [Result(f, "value") EXCEPT !.num = _convertSize(context.totalSize, targetUnit),
                               !.visits = context.visits]

getStorageSize(f, sandboxed, path, unit, env) ==
    LET targetUnit == IF unit = "" THEN "mb" ELSE unit
        file == _resolvePath(sandboxed, path)
    IN  IF file = NullFile THEN Result(f, "null")
        ELSE IF Throws(env, "File.exists") \/ ~exists(f, file) THEN Result(f, "null")
        ELSE IF isFile(f, file)
             THEN [Result(f, "value") EXCEPT !.num = _convertSize(length(f, file), targetUnit)]
        ELSE Sized(f, targetUnit,
                   _traverseDirectory("size", "pre-order", file, WalkState(f),
                                      Context(env, file, NullFile, NullFile)))

getMetadata(f, sandboxed, path, env) ==
    LET file == _resolvePath(sandboxed, path)
    IN  IF file = NullFile THEN Result(f, "null")
        ELSE IF Throws(env, "File.exists") \/ ~exists(f, file) THEN Result(f, "null")
        ELSE [Result(f, "value") EXCEPT !.file = file, !.num = length(f, file)]

(***************************************************************************)
(* FileStream, the host's file API: write makes the missing folders and    *)
(* the file and returns the content, read returns the content or null,     *)
(* append returns the whole content, remove deletes a file.                *)
(***************************************************************************)
FileStream_write(f, file, data, env) ==
    LET parent == getParentFile(file)
        made == IF parent # NullFile /\ ~exists(f, parent)
                THEN mkdirs(f, parent, env).fs ELSE f
        fos == FileOutputStream(made, file, env)
    IN  IF fos.ok
        THEN Result(Put(fos.fs, Canonical(file), FileNode(Bytes(data), env.now)), "value")
        ELSE Result(made, "null")

FileStream_read(f, file) ==
    IF isFile(f, file) THEN Result(f, "value") ELSE Result(f, "null")

FileStream_append(f, file, data, env) ==
    IF isFile(f, file) /\ Permits(Canonical(file), env)
    THEN LET old == f[Canonical(file)].data
         IN  Result(Put(f, Canonical(file),
                        FileNode([old EXCEPT !.bytes = old.bytes \o data], env.now)),
                    "value")
    ELSE FileStream_write(f, file, data, env)

FileStream_remove(f, file, env) ==
    IF isFile(f, file)
    THEN LET r == File_delete(f, file, env) IN Result(r.fs, Bool(r.ok))
    ELSE Result(f, "false")

write(f, sandboxed, path, data, env) ==
    LET file == _resolvePath(sandboxed, path)
    IN  IF file = NullFile THEN Result(f, "null")
        ELSE IF Throws(env, "FileStream") THEN Result(f, "null")
        ELSE FileStream_write(f, file, data, env)

read(f, sandboxed, path, env) ==
    LET file == _resolvePath(sandboxed, path)
    IN  IF file = NullFile THEN Result(f, "null")
        ELSE IF Throws(env, "FileStream") THEN Result(f, Escaped)
        ELSE FileStream_read(f, file)

append(f, sandboxed, path, data, env) ==
    LET file == _resolvePath(sandboxed, path)
    IN  IF file = NullFile THEN Result(f, "null")
        ELSE IF Throws(env, "FileStream") THEN Result(f, "null")
        ELSE FileStream_append(f, file, data, env)

delete(f, sandboxed, path, env) ==
    LET file == _resolvePath(sandboxed, path)
    IN  IF file = NullFile THEN Result(f, "false")
        ELSE IF Throws(env, "FileStream") THEN Result(f, "false")
        ELSE FileStream_remove(f, file, env)

(***************************************************************************)
(* copy and move.                                                          *)
(***************************************************************************)
\* destParent of copy and move: made, with its ancestors, if it is missing.
WithParent(f, destination, env) ==
    IF getParentFile(destination) # NullFile /\ ~exists(f, getParentFile(destination))
    THEN mkdirs(f, getParentFile(destination), env).fs ELSE f

copy(f, sandboxed, sourcePath, resultPath, env) ==
    LET source == _resolvePath(sandboxed, sourcePath)
        destination == _resolvePath(sandboxed, resultPath)
    IN  IF source = NullFile \/ destination = NullFile THEN Result(f, "false")
        ELSE IF Throws(env, "File.exists") \/ ~exists(f, source) THEN Result(f, "false")
        ELSE
        LET f1 == WithParent(f, destination, env)
        IN  IF isFile(f1, source)
            THEN Completed(_copyFile(f1, source, destination, env))
            ELSE IF isDirectory(f1, source)
            THEN LET f2 == IF ~exists(f1, destination)
                           THEN mkdirs(f1, destination, env).fs ELSE f1
                 IN  CompletedWalk(_traverseDirectory("copy", "pre-order", source, WalkState(f2),
                                          Context(env, source, destination, NullFile)))
            ELSE Result(f1, "true")

\* A variant that removes the source whatever the copy returned.
RemoveRegardless(copied, sandboxed, source, env) ==
    remove(copied.fs, sandboxed, AsUserPath(source), env)

\* The end of move's fallback: the source is removed if the copy succeeded.
RemoveCopied(copied, sandboxed, source, env) ==
    IF copied.ret = "true"
    THEN remove(copied.fs, sandboxed, AsUserPath(source), env)
    ELSE [Result(copied.fs, "false") EXCEPT !.open = copied.open]

\* move, once the source is known to exist: the parent of the destination
\* made, the rename tried, and the fallback.
Relocate(f, sandboxed, source, destination, env) ==
    LET f1 == WithParent(f, destination, env)
    IN  IF renameTo(f1, source, destination, env).ok
        THEN Result(renameTo(f1, source, destination, env).fs, "true")
        ELSE RemoveCopied(copy(f1, sandboxed, AsUserPath(source),
                               AsUserPath(destination), env),
                          sandboxed, source, env)

\* A variant of move that makes the destination's parent before it looks at
\* what the paths resolved to.
moveEager(f, sandboxed, sourcePath, resultPath, env) ==
    LET source == _resolvePath(sandboxed, sourcePath)
        destination == _resolvePath(sandboxed, resultPath)
        f1 == IF destination = NullFile THEN f ELSE WithParent(f, destination, env)
    IN  IF source = NullFile \/ destination = NullFile THEN Result(f1, "false")
        ELSE IF ~exists(f1, source) THEN Result(f1, "false")
        ELSE Relocate(f1, sandboxed, source, destination, env)

move(f, sandboxed, sourcePath, resultPath, env) ==
    LET source == _resolvePath(sandboxed, sourcePath)
        destination == _resolvePath(sandboxed, resultPath)
    IN  IF source = NullFile \/ destination = NullFile THEN Result(f, "false")
        ELSE IF Throws(env, "File.exists") \/ ~exists(f, source) THEN Result(f, "false")
        ELSE Relocate(f, sandboxed, source, destination, env)

(***************************************************************************)
(* zip and unzip.                                                          *)
(***************************************************************************)
\* The archive path zip takes when zipFilePath is omitted.
DefaultZipFile(sourceFile) ==
    LET parentDir == getParentFile(sourceFile)
        baseName == getBaseName(getName(sourceFile))
    IN  IF parentDir # NullFile
        THEN ChildFile(parentDir, <<baseName \o ZipSuffix>>)
        ELSE ChildFile(Cwd, <<baseName \o ZipSuffix>>)

\* What zip and unzip return: null if the work threw, else the path.
Delivered(st, file) ==
    IF st.err THEN Result(st.fs, "null")
    ELSE [Result(st.fs, "value") EXCEPT !.file = file]

DeliveredWalk(st, file) ==
    IF st.err THEN [Result(st.fs, "null") EXCEPT !.visits = st.visits]
    ELSE [Result(st.fs, "value") EXCEPT !.file = file, !.visits = st.visits]

zip(f, sandboxed, sourcePath, zipFilePath, env) ==
    LET sourceFile == _resolvePath(sandboxed, sourcePath)
    IN  IF sourceFile = NullFile THEN Result(f, "null")
        ELSE IF Throws(env, "File.exists") THEN Result(f, Escaped)
        ELSE IF ~exists(f, sourceFile) THEN Result(f, "null")
        ELSE
        LET zipFile == IF zipFilePath # EmptyString
                       THEN _resolvePath(sandboxed, zipFilePath)
                       ELSE DefaultZipFile(sourceFile)
        IN  IF zipFile = NullFile THEN Result(f, "null")
            ELSE
            LET fos == FileOutputStream(f, zipFile, env)
                ctx == Context(env, sourceFile, NullFile, zipFile)
                st0 == WalkState(fos.fs)
            IN  IF ~fos.ok THEN Result(f, "null")
                ELSE ClosedOver(
                    IF isDirectory(fos.fs, sourceFile)
                    THEN DeliveredWalk(_traverseDirectory("zip", "pre-order", sourceFile,
                                                          st0, ctx),
                                       zipFile)
                    ELSE IF ~CanRead(fos.fs, sourceFile) THEN Result(fos.fs, "null")
                    ELSE IF \/ Throws(env, "FileInputStream.close")
                            \/ /\ Throws(env, "OutputStream.write")
                               /\ length(fos.fs, sourceFile) > 0
                    THEN Result(fos.fs, "null")
                    ELSE Delivered(WriteEntry(st0, ctx,
                                              ZipEntry(getName(sourceFile), FALSE,
                                                       StreamOf(fos.fs, sourceFile))),
                                   zipFile),
                    env, "ZipOutputStream.close", "zip.fos")

\* A variant of the Zip Slip test that leaves the separator off the
\* destination's path.
IsInsideNoBoundary(newFilePath, destDirPath) ==
    StartsWith(newFilePath, SubSeq(destDirPath, 1, Len(destDirPath) - 1))

\* The Zip Slip test of unzip.
IsInside(newFilePath, destDirPath) == StartsWith(newFilePath, destDirPath)

\* The loop of unzip over the entries from the i-th on; err says it threw.
RECURSIVE Extract(_, _, _, _, _, _)

\* A variant that passes over an entry that fails the test and goes on
\* with the next.
SlippedAndSkipped(f, entries, i, destDirectory, destDirPath, env) ==
    Extract(f, entries, i + 1, destDirectory, destDirPath, env)

\* The i-th entry fails the test: throw new java.io.IOException.
Slipped(f, entries, i, destDirectory, destDirPath, env) == [fs |-> f, err |-> TRUE]

Extract(f, entries, i, destDirectory, destDirPath, env) ==
    IF i > Len(entries) THEN [fs |-> f, err |-> FALSE]
    ELSE
    LET zipEntry == entries[i]
        newFile == NewChild(destDirectory, zipEntry.name)
        newFilePath == getCanonicalPath(newFile)
    IN  IF ~IsInside(newFilePath, destDirPath)
        THEN Slipped(f, entries, i, destDirectory, destDirPath, env)
        ELSE IF zipEntry.dir
        THEN LET made == mkdirs(f, newFile, env)
             IN  IF ~isDirectory(f, newFile) /\ ~made.ok
                 THEN [fs |-> made.fs, err |-> TRUE]
                 ELSE Extract(IF isDirectory(f, newFile) THEN f ELSE made.fs,
                              entries, i + 1, destDirectory, destDirPath, env)
        ELSE LET parent == getParentFile(newFile)
                 made == mkdirs(f, parent, env)
                 f1 == IF isDirectory(f, parent) THEN f ELSE made.fs
                 fos == FileOutputStream(f1, newFile, env)
             IN  IF ~isDirectory(f, parent) /\ ~made.ok THEN [fs |-> f1, err |-> TRUE]
                 ELSE IF ~fos.ok THEN [fs |-> f1, err |-> TRUE]
                 ELSE IF Throws(env, "OutputStream.write") /\ Len(zipEntry.data.bytes) > 0
                 THEN [fs |-> fos.fs, err |-> TRUE]
                 ELSE IF Throws(env, "FileOutputStream.close")
                 THEN [fs |-> Put(fos.fs, Canonical(newFile),
                                  FileNode([bytes |-> _copyStream(zipEntry.data.bytes, 0, <<>>),
                                            entries |-> zipEntry.data.entries], env.now)),
                       err |-> TRUE]
                 ELSE Extract(Put(fos.fs, Canonical(newFile),
                                  FileNode([bytes |-> _copyStream(zipEntry.data.bytes, 0, <<>>),
                                            entries |-> zipEntry.data.entries], env.now)),
                              entries, i + 1, destDirectory, destDirPath, env)

\* The destination unzip takes when resultFolderPath is omitted.
DefaultDestDirectory(zipFile) ==
    ChildFile(IF getParentFile(zipFile) = NullFile THEN Cwd ELSE getParentFile(zipFile),
              <<getBaseName(getName(zipFile))>>)

unzip(f, sandboxed, zipFilePath, resultFolderPath, env) ==
    LET zipFile == _resolvePath(sandboxed, zipFilePath)
    IN  IF zipFile = NullFile THEN Result(f, "null")
        ELSE IF Throws(env, "File.exists") THEN Result(f, Escaped)
        ELSE IF ~exists(f, zipFile) \/ isDirectory(f, zipFile) THEN Result(f, "null")
        ELSE
        LET destDirectory == IF resultFolderPath # EmptyString
                             THEN _resolvePath(sandboxed, resultFolderPath)
                             ELSE DefaultDestDirectory(zipFile)
        IN  IF destDirectory = NullFile THEN Result(f, "null")
            ELSE
            LET f1 == IF ~exists(f, destDirectory)
                      THEN mkdirs(f, destDirectory, env).fs ELSE f
                destDirPath == IF EndsWith(getCanonicalPath(destDirectory), File_separator)
                               THEN getCanonicalPath(destDirectory)
                               ELSE getCanonicalPath(destDirectory) \o File_separator
            IN  ClosedOver(Delivered(Extract(f1, f1[Canonical(zipFile)].data.entries, 1,
                                             destDirectory, destDirPath, env),
                                     destDirectory),
                           env, "ZipInputStream.close", "unzip.fis")

(***************************************************************************)
(* getDirectoryTree.  options: sort.by, sort.order, showEmptyFolders and   *)
(* the search conditions extension (one extension, or with isArray the     *)
(* array extensions), name, regex, content and contentRegex, each "" when  *)
(* not given.  A line is a string; the                                     *)
(* box-drawing characters U+2502, U+251C and U+2514 are written "|", "+"   *)
(* and "L".                                                                *)
(***************************************************************************)
Options(by, order, showEmptyFolders, extension) ==
    [by |-> by, order |-> order, showEmptyFolders |-> showEmptyFolders,
     extension |-> extension, isArray |-> FALSE, extensions |-> <<>>,
     name |-> <<>>, regex |-> <<>>, content |-> <<>>, contentRegex |-> <<>>]

\* options with an array as search.extension.
ExtensionArray(opts, extensions) ==
    [opts EXCEPT !.extension = <<>>, !.isArray = TRUE, !.extensions = extensions]

\* options with the search conditions of options.search.
Search(opts, name, regex, content, contentRegex) ==
    [opts EXCEPT !.name = name, !.regex = regex, !.content = content,
                 !.contentRegex = contentRegex]

\* The extensions of BINARY_EXTENSIONS that the alphabet spells.
BINARY_EXTENSIONS ==
    {<<"z", "i", "p">>, <<"r", "a", "r">>, <<"t", "a", "r">>, <<"p", "d", "f">>,
     <<"d", "b">>}

\* String.prototype.includes
includes(str, sub) ==
    \E i \in 0..(Len(str) - Len(sub)) : SubSeq(str, i + 1, i + Len(sub)) = sub

(***************************************************************************)
(* Regular expressions, for the patterns made of characters and groups:    *)
(* new RegExp throws when the parentheses do not pair up, and test finds   *)
(* the characters of the pattern, one after the other, in the string.      *)
(***************************************************************************)
RECURSIVE Unclosed(_, _)
Unclosed(pattern, open) ==
    IF pattern = <<>> THEN open
    ELSE IF Head(pattern) = "(" THEN Unclosed(Tail(pattern), open + 1)
    ELSE IF Head(pattern) = ")"
         THEN IF open = 0 THEN -1 ELSE Unclosed(Tail(pattern), open - 1)
    ELSE Unclosed(Tail(pattern), open)

RegExpThrows(pattern) == Unclosed(pattern, 0) # 0

RegExp_test(pattern, str) ==
    includes(str, SelectSeq(pattern, LAMBDA c : c \notin {"(", ")"}))

\* The text FileStream.read makes of bytes: 1 reads "x", 2 reads "y".
TextOf(bytes) == [i \in 1..Len(bytes) |-> IF bytes[i] = 1 THEN "x" ELSE "y"]

\* The string getDirectoryTree returns for a pattern RegExp rejects.
InvalidPattern == "invalid pattern"

ToLowerChar(c) == IF c = "T" THEN "t" ELSE c
toLowerCase(str) == [i \in 1..Len(str) |-> ToLowerChar(str[i])]

\* utils.getExtension
getExtension(name) ==
    LET dotIndex == LastIndexOf(name, ".")
    IN  IF dotIndex > -1 THEN toLowerCase(substring(name, dotIndex + 1)) ELSE <<>>

hasContentSearch(opts) == opts.content # <<>> \/ opts.contentRegex # <<>>

\* extensionOpt: the extensions asked for, in lower case; given says that
\* there is such a condition (a non-empty string, or an array).
extensionOpt(opts) ==
    IF opts.isArray
    THEN [given |-> TRUE,
          list |-> [k \in 1..Len(opts.extensions) |-> toLowerCase(opts.extensions[k])]]
    ELSE [given |-> opts.extension # <<>>, list |-> <<toLowerCase(opts.extension)>>]

\* A variant of the content conditions in which content, when given, is
\* looked for whether or not contentRegex is given.
PassesContentSubstringFirst(f, item, extension, opts) ==
    /\ extension \notin BINARY_EXTENSIONS
    /\ isFile(f, item)
    /\ IF opts.content # <<>>
       THEN includes(TextOf(f[Canonical(item)].data.bytes), opts.content)
       ELSE RegExp_test(opts.contentRegex, TextOf(f[Canonical(item)].data.bytes))

\* The content conditions of the filter, on a file with this extension.
PassesContent(f, item, extension, opts) ==
    /\ extension \notin BINARY_EXTENSIONS
    /\ isFile(f, item)
    /\ IF opts.contentRegex # <<>>
       THEN RegExp_test(opts.contentRegex, TextOf(f[Canonical(item)].data.bytes))
       ELSE includes(TextOf(f[Canonical(item)].data.bytes), opts.content)

\* The name conditions of the filter, on a file of this name.
PassesName(itemName, extension, opts) ==
    /\ extensionOpt(opts).given =>
           \E k \in 1..Len(extensionOpt(opts).list) : extensionOpt(opts).list[k] = extension
    /\ opts.name = <<>> \/ includes(toLowerCase(itemName), toLowerCase(opts.name))
    /\ opts.regex = <<>> \/ RegExp_test(opts.regex, itemName)

\* The filter of traverse: directories always pass.
PassesFilter(f, item, opts) ==
    \/ isDirectory(f, item)
    \/ /\ PassesName(getName(item), getExtension(getName(item)), opts)
       /\ hasContentSearch(opts) =>
              PassesContent(f, item, getExtension(getName(item)), opts)

\* String.localeCompare, on the names used.
localeCompare(a, b) == CompareNames(toLowerCase(a), toLowerCase(b))

\* A variant of the comparator in which "desc" turns the whole order round,
\* the order of directories and files with it.
CompareItemsFlipped(f, a, b, opts) ==
    LET compareResult ==
            IF isDirectory(f, a) /\ ~isDirectory(f, b) THEN -1
            ELSE IF ~isDirectory(f, a) /\ isDirectory(f, b) THEN 1
            ELSE CASE opts.by = "date" -> lastModified(f, a) - lastModified(f, b)
                   [] opts.by = "size" ->
                        IF isFile(f, a) /\ isFile(f, b)
                        THEN length(f, a) - length(f, b) ELSE 0
                   [] OTHER -> localeCompare(getName(a), getName(b))
    IN  IF opts.order = "desc" THEN 0 - compareResult ELSE compareResult

\* The comparator of filteredList.sort.
CompareItems(f, a, b, opts) ==
    IF isDirectory(f, a) /\ ~isDirectory(f, b) THEN -1
    ELSE IF ~isDirectory(f, a) /\ isDirectory(f, b) THEN 1
    ELSE LET compareResult ==
                 CASE opts.by = "date" -> lastModified(f, a) - lastModified(f, b)
                   [] opts.by = "size" ->
                        IF isFile(f, a) /\ isFile(f, b)
                        THEN length(f, a) - length(f, b) ELSE 0
                   [] OTHER -> localeCompare(getName(a), getName(b))
         IN  IF opts.order = "desc" THEN 0 - compareResult ELSE compareResult

\* x put into the sorted list before the first item it is less than.
RECURSIVE InsertSorted(_, _, _, _)
InsertSorted(f, x, sorted, opts) ==
    IF sorted = <<>> THEN <<x>>
    ELSE IF CompareItems(f, x, Head(sorted), opts) < 0 THEN <<x>> \o sorted
    ELSE <<Head(sorted)>> \o InsertSorted(f, x, Tail(sorted), opts)

\* Array.prototype.sort with the comparator: a stable sort.
RECURSIVE SortItems(_, _, _)
SortItems(f, list, opts) ==
    IF list = <<>> THEN <<>>
    ELSE InsertSorted(f, list[Len(list)], SortItems(f, SubSeq(list, 1, Len(list) - 1), opts),
                      opts)

RECURSIVE Repeat(_, _)
Repeat(str, n) == IF n <= 0 THEN <<>> ELSE str \o Repeat(str, n - 1)

Prefix(depth, isLast) ==
    Repeat(<<"|", " ", " ">>, depth - 1) \o (IF isLast THEN <<"L", " ">> ELSE <<"+", " ">>)

\* A variant that lists every directory, whatever is under it.
ShowsDirectoryAlways(childLines, opts) == TRUE

\* A directory gets its line when it has lines under it or empty folders are shown.
ShowsDirectory(childLines, opts) == Len(childLines) > 0 \/ opts.showEmptyFolders

RECURSIVE traverse(_, _, _, _, _)
RECURSIVE RenderItems(_, _, _, _, _, _)

\* The filesystem as traverse finds it once directory.listFiles() has
\* returned: without the child another process deletes just then.
AfterListing(f, directory, env) ==
    IF /\ env.vanish.when = "listed"
       /\ Len(env.vanish.path) = Len(Canonical(directory)) + 1
       /\ Under(env.vanish.path, Canonical(directory))
    THEN Gone(f, env.vanish.path) ELSE f

\* traverse from the filter on: itemList filtered, sorted and rendered.
Filtered(f, itemList, depth, opts, env) ==
    RenderItems(f, SortItems(f, SelectSeq(itemList, LAMBDA item : PassesFilter(f, item, opts)),
                             opts),
                1, depth, opts, env)

traverse(f, directory, depth, opts, env) ==
    IF ListsNull(f, directory, env) THEN <<>>
    ELSE Filtered(AfterListing(f, directory, env), listFiles(f, directory, env),
                  depth, opts, env)

RenderItems(f, filteredList, i, depth, opts, env) ==
    IF i > Len(filteredList) THEN <<>>
    ELSE LET item == filteredList[i]
             prefix == Prefix(depth, i = Len(filteredList))
             childLines == traverse(f, item, depth + 1, opts, env)
             here == IF isDirectory(f, item)
                     THEN IF ShowsDirectory(childLines, opts)
                          THEN <<prefix \o getName(item) \o File_separator>> \o childLines
                          ELSE <<>>
                     ELSE <<prefix \o getName(item)>>
         IN  here \o RenderItems(f, filteredList, i + 1, depth, opts, env)

getDirectoryTree(f, sandboxed, path, opts, env) ==
    LET file == _resolvePath(sandboxed, path)
    IN  IF file = NullFile THEN Result(f, "null")
        ELSE IF opts.regex # <<>> /\ RegExpThrows(opts.regex)
        THEN Result(f, InvalidPattern)
        ELSE IF opts.contentRegex # <<>> /\ RegExpThrows(opts.contentRegex)
        THEN Result(f, InvalidPattern)
        ELSE IF Throws(env, "File.exists") THEN Result(f, "null")
        ELSE IF ~exists(f, file) \/ ~isDirectory(f, file) THEN Result(f, "null")
        ELSE [Result(f, "value") EXCEPT
                 !.lines = <<getName(file) \o File_separator>>
                           \o traverse(f, file, 1, opts, env)]

(***************************************************************************)
(* The filesystems a run starts from and the arguments the calls take.     *)
(***************************************************************************)
SDCARD2 == SDCARD \o <<"2">>
Nt == <<"t">>
Ns == <<"s">>
Ne == <<"e">>
Nx == <<"x">>
Ny == <<"y">>
Nd == <<"d">>
Nn == <<"n">>
Netc == <<"e", "t", "c">>
Nzip == <<"a">> \o ZipSuffix

SixOnes == <<1, 1, 1, 1, 1, 1>>
SixTwos == <<2, 2, 2, 2, 2, 2>>
FiveOnes == <<1, 1, 1, 1, 1>>

\* The root, the sandbox /sdcard and its neighbour /sdcard2.
Skeleton ==
    (<<>> :> DirNode(0)) @@ (<<SDCARD>> :> DirNode(0)) @@ (<<SDCARD2>> :> DirNode(0))

\* /sdcard/t: a file, a sub-directory with a file, and an empty directory.
NestedTree ==
    (<<SDCARD, Nt>> :> DirNode(0))
    @@ (<<SDCARD, Nt, Nx>> :> FileNode(Bytes(SixOnes), 1))
    @@ (<<SDCARD, Nt, Ns>> :> DirNode(1))
    @@ (<<SDCARD, Nt, Ns, Ny>> :> FileNode(Bytes(SixTwos), 0))
    @@ (<<SDCARD, Nt, Ne>> :> DirNode(0))

\* /sdcard/t: a file x, and a sub-directory holding another file x.
TwinTree ==
    (<<SDCARD, Nt>> :> DirNode(1))
    @@ (<<SDCARD, Nt, Nx>> :> FileNode(Bytes(SixOnes), 0))
    @@ (<<SDCARD, Nt, Ns>> :> DirNode(0))
    @@ (<<SDCARD, Nt, Ns, Nx>> :> FileNode(Bytes(FiveOnes), 1))

\* /sdcard/t: directories only.
HollowTree ==
    (<<SDCARD, Nt>> :> DirNode(0))
    @@ (<<SDCARD, Nt, Ns>> :> DirNode(0))
    @@ (<<SDCARD, Nt, Ns, Ne>> :> DirNode(1))

\* /sdcard/t: files "a.T" (xxy), "x.t" (yy), "y.db" (xy) and "n" (xy), a
\* sub-directory with the file "Tn.t" (xx), and an empty directory.
SearchTree ==
    (<<SDCARD, Nt>> :> DirNode(0))
    @@ (<<SDCARD, Nt, <<"a", ".", "T">> >> :> FileNode(Bytes(<<1, 1, 2>>), 0))
    @@ (<<SDCARD, Nt, <<"x", ".", "t">> >> :> FileNode(Bytes(<<2, 2>>), 0))
    @@ (<<SDCARD, Nt, <<"y", ".", "d", "b">> >> :> FileNode(Bytes(<<1, 2>>), 0))
    @@ (<<SDCARD, Nt, Nn>> :> FileNode(Bytes(<<1, 2>>), 0))
    @@ (<<SDCARD, Nt, Ns>> :> DirNode(0))
    @@ (<<SDCARD, Nt, Ns, <<"T", "n", ".", "t">> >> :> FileNode(Bytes(<<1, 1>>), 0))
    @@ (<<SDCARD, Nt, Ne>> :> DirNode(0))

\* An archive as zip writes it: a file, a nested file, an empty directory.
PlainArchive ==
    <<ZipEntry(Nx, FALSE, Bytes(SixOnes)),
      ZipEntry(Ns \o File_separator \o Ny, FALSE, Bytes(SixTwos)),
      ZipEntry(Ne \o File_separator, TRUE, NoData)>>

\* An archive whose second entry is "../x".
SlipArchive ==
    <<ZipEntry(Ny, FALSE, Bytes(SixTwos)),
      ZipEntry(DotDot \o File_separator \o Nx, FALSE, Bytes(SixTwos)),
      ZipEntry(Ns \o File_separator, TRUE, NoData)>>

\* An archive whose first entry is "../d2/": beside the destination d, in a
\* directory whose name starts with d's.
SiblingArchive ==
    <<ZipEntry(DotDot \o File_separator \o Nd \o <<"2">> \o File_separator, TRUE, NoData),
      ZipEntry(Nx, FALSE, Bytes(SixOnes))>>

WithArchive(entries) == <<SDCARD, Nzip>> :> FileNode(Archive(entries), 0)

InitialFilesystems ==
    {Skeleton @@ NestedTree @@ WithArchive(PlainArchive),
     Skeleton @@ TwinTree @@ WithArchive(SlipArchive),
     Skeleton @@ HollowTree @@ WithArchive(SiblingArchive)}

\* Paths a caller gives.
P_t == UserPath(FALSE, <<Nt>>)
P_tx == UserPath(FALSE, <<Nt, Nx>>)
P_ts == UserPath(FALSE, <<Nt, Ns>>)
P_d == UserPath(FALSE, <<Nd>>)
P_dn == UserPath(FALSE, <<Nd, Nn>>)
P_zip == UserPath(FALSE, <<Nzip>>)
P_tzip == UserPath(FALSE, <<Nt, Nzip>>)
P_tz == UserPath(FALSE, <<Nt \o ZipSuffix>>)
P_escape == UserPath(FALSE, <<DotDot, DotDot, Netc>>)
P_neighbour == UserPath(TRUE, <<SDCARD2, Nx>>)
P_base == UserPath(TRUE, <<SDCARD>>)
P_trusted == UserPath(FALSE, <<SDCARD, Nt>>)
P_trustedOut == UserPath(FALSE, <<SDCARD, DotDot, Netc>>)
P_dot == UserPath(FALSE, <<Dot>>)
P_slash == UserPath(TRUE, <<>>)

\* What the host decides during a call, but for the clock.
Fault(deny, xdev, rev) ==
    [deny |-> deny, xdev |-> xdev, rev |-> rev, throws |-> {}, beneath |-> FALSE,
     vanish |-> [path |-> <<>>, when |-> "never"], unreadable |-> {}]

\* The fault in which the directories at these canonical paths cannot be
\* read: listFiles() of them is null.
Unreadable(fault, paths) == [fault EXCEPT !.unreadable = paths]

\* The fault in which another process deletes the node at the canonical
\* path when the walk of the call has it listed, or checked.
Vanishing(fault, path, when) == [fault EXCEPT !.vanish = [path |-> path, when |-> when]]

\* The fault with these primitives throwing: "File.exists" (a
\* SecurityException) or "FileStream" (an error in the host's file API).
Throw(fault, primitives) == [fault EXCEPT !.throws = primitives]

\* The fault in which a ZIP stream whose close() throws has closed the
\* stream beneath it before (which of the two it does is the runtime's).
ClosingBeneath(fault) == [fault EXCEPT !.beneath = TRUE]
NoFault == Fault({}, FALSE, FALSE)

Env(fault, h) ==
    [deny |-> fault.deny, xdev |-> fault.xdev, rev |-> fault.rev,
     throws |-> fault.throws, beneath |-> fault.beneath, vanish |-> fault.vanish,
     unreadable |-> fault.unreadable, now |-> Len(h) + 2]

DefaultOptions == Options("name", "asc", FALSE, <<>>)

\* The arguments of a call that are not paths.
Extra(unit, opts, data) ==
    [unit |-> unit, opts |-> opts, data |-> data, list |-> <<>>, visitors |-> "",
     order |-> ""]
NoExtra == Extra("", DefaultOptions, <<>>)

\* The array of paths a call was given in place of a path.
ListExtra(list) == [NoExtra EXCEPT !.list = list]

\* The options of a call of _traverseDirectory: the visitors and the order.
WalkExtra(who, order) == [NoExtra EXCEPT !.visitors = who, !.order = order]

(***************************************************************************)
(* The state machine: a caller calls one public operation at a time.       *)
(***************************************************************************)
\* The constructor, called with no basePath or with "/sdcard", which exists.
Init ==
    /\ fs \in InitialFilesystems
    /\ isSandboxed \in BOOLEAN
    /\ hist = <<>>

\* The call is made: the filesystem is as the operation leaves it and the
\* call, with what it returned and the filesystem it found, is recorded.
Returns(bound, op, a, b, extra, fault, r) ==
    /\ Len(hist) < bound
    /\ fs' = r.fs
    /\ hist' = Append(hist, [op |-> op, a |-> a, b |-> b, extra |-> extra,
                             fault |-> fault, ret |-> r.ret, file |-> r.file,
                             num |-> r.num, lines |-> r.lines, visits |-> r.visits,
                             open |-> r.open, pre |-> fs])
    /\ UNCHANGED isSandboxed

CallCreateDirectory(bound, paths, faults) ==
    \E a \in paths, x \in faults :
        Returns(bound, "createDirectory", a, EmptyString, NoExtra, x,
                createDirectory(fs, isSandboxed, a, Env(x, hist)))

CallDeleteDirectory(bound, paths, faults) ==
    \E a \in paths, x \in faults :
        Returns(bound, "deleteDirectory", a, EmptyString, NoExtra, x,
                deleteDirectory(fs, isSandboxed, a, Env(x, hist)))

CallRemove(bound, paths, faults) ==
    \E a \in paths, x \in faults :
        Returns(bound, "remove", a, EmptyString, NoExtra, x,
                remove(fs, isSandboxed, a, Env(x, hist)))

CallGetDirectoryTree(bound, paths, options, faults) ==
    \E a \in paths, o \in options, x \in faults :
        Returns(bound, "getDirectoryTree", a, EmptyString, Extra("", o, <<>>), x,
                getDirectoryTree(fs, isSandboxed, a, o, Env(x, hist)))

CallGetMetadata(bound, paths, faults) ==
    \E a \in paths, x \in faults :
        Returns(bound, "getMetadata", a, EmptyString, NoExtra, x,
                getMetadata(fs, isSandboxed, a, Env(x, hist)))

CallGetStorageSize(bound, paths, units, faults) ==
    \E a \in paths, u \in units, x \in faults :
        Returns(bound, "getStorageSize", a, EmptyString, Extra(u, DefaultOptions, <<>>), x,
                getStorageSize(fs, isSandboxed, a, u, Env(x, hist)))

CallRead(bound, paths, faults) ==
    \E a \in paths, x \in faults :
        Returns(bound, "read", a, EmptyString, NoExtra, x,
                read(fs, isSandboxed, a, Env(x, hist)))

CallWrite(bound, paths, contents, faults) ==
    \E a \in paths, d \in contents, x \in faults :
        Returns(bound, "write", a, EmptyString, Extra("", DefaultOptions, d), x,
                write(fs, isSandboxed, a, d, Env(x, hist)))

CallAppend(bound, paths, contents, faults) ==
    \E a \in paths, d \in contents, x \in faults :
        Returns(bound, "append", a, EmptyString, Extra("", DefaultOptions, d), x,
                append(fs, isSandboxed, a, d, Env(x, hist)))

CallDelete(bound, paths, faults) ==
    \E a \in paths, x \in faults :
        Returns(bound, "delete", a, EmptyString, NoExtra, x,
                delete(fs, isSandboxed, a, Env(x, hist)))

CallCopy(bound, sources, destinations, faults) ==
    \E a \in sources, b \in destinations, x \in faults :
        Returns(bound, "copy", a, b, NoExtra, x,
                copy(fs, isSandboxed, a, b, Env(x, hist)))

CallMove(bound, sources, destinations, faults) ==
    \E a \in sources, b \in destinations, x \in faults :
        Returns(bound, "move", a, b, NoExtra, x,
                move(fs, isSandboxed, a, b, Env(x, hist)))

\* _traverseDirectory called with a path string, with the visitors of
\* getStorageSize ("size") or with none ("none": the defaults, which do
\* nothing), and an order.
CallTraverse(bound, paths, visitors, orders, faults) ==
    \E a \in paths, who \in visitors, order \in orders, x \in faults :
        Returns(bound, "_traverseDirectory", a, EmptyString, WalkExtra(who, order), x,
                Traversed(_traverseDirectory(who, order, NewFile(a), WalkState(fs),
                                             Context(Env(x, hist), NewFile(a),
                                                     NullFile, NullFile))))

\* copy and move with an array of source paths.
CallCopyList(bound, lists, destinations, faults) ==
    \E l \in lists, b \in destinations, x \in faults :
        Returns(bound, "copy", StringOfArray(l), b, ListExtra(l), x,
                copy(fs, isSandboxed, StringOfArray(l), b, Env(x, hist)))

CallMoveList(bound, lists, destinations, faults) ==
    \E l \in lists, b \in destinations, x \in faults :
        Returns(bound, "move", StringOfArray(l), b, ListExtra(l), x,
                move(fs, isSandboxed, StringOfArray(l), b, Env(x, hist)))

CallZip(bound, sources, archives, faults) ==
    \E a \in sources, b \in archives, x \in faults :
        Returns(bound, "zip", a, b, NoExtra, x,
                zip(fs, isSandboxed, a, b, Env(x, hist)))

CallUnzip(bound, archives, destinations, faults) ==
    \E a \in archives, b \in destinations, x \in faults :
        Returns(bound, "unzip", a, b, NoExtra, x,
                unzip(fs, isSandboxed, a, b, Env(x, hist)))

\* The argument sets of the runs over all operations.
AnyPath ==
    {EmptyString, P_t, P_tx, P_ts, P_d, P_dn, P_zip, P_escape, P_neighbour, P_base,
     P_trusted, P_trustedOut}
Sources == {P_t, P_tx, P_zip, P_escape, P_neighbour, P_base, P_trusted}
Destinations == {EmptyString, P_d, P_dn, P_ts, P_tzip, P_escape, P_neighbour}
Denials == {{}, {<<SDCARD, Nd>>}, {<<SDCARD, Nt, Nx>>}}
Faults == {Fault(d, FALSE, r) : d \in Denials, r \in BOOLEAN}
MoveFaults == {Fault(d, v, r) : d \in Denials, v \in BOOLEAN, r \in BOOLEAN}
Quiet == {Fault(d, FALSE, FALSE) : d \in Denials}
SourceLists == {<<P_tx>>, <<P_t>>, <<P_tx, P_zip>>, <<P_t, P_zip>>, <<P_zip, P_tx, P_ts>>}
Thrown == {Throw(NoFault, {"File.exists"}), Throw(NoFault, {"FileStream"})}
Units == {"", "b", "kb", "KB", "mb", "gb", "tb"}
Contents == {<<>>, FiveOnes}
\* The search conditions of a call: none, an extension, a name, patterns
\* for the name and for the content (well-formed and not), a content.
Searches ==
    {Options("name", "asc", show, ext) : show \in BOOLEAN, ext \in {ZipSuffix, <<"z", "i", "p">>}}
    \cup {Search(Options("name", "asc", show, <<>>), n, r, c, cr) :
             show \in BOOLEAN, n \in {<<>>, <<"y">>}, r \in {<<>>, <<"(", "x", ")">>, <<"(">>},
             c \in {<<>>, <<"y", "y">>}, cr \in {<<>>, <<"x", "(", "x", ")">>, <<")">>}}

\* The options that leave nothing out.
Everything == {DefaultOptions, Options("name", "asc", TRUE, <<>>)}

TreeOptions ==
    {Options(by, order, show, ext) :
        by \in {"name", "date", "size"}, order \in {"asc", "desc"},
        show \in BOOLEAN, ext \in {<<>>}}
    \cup Searches

Next ==
    \/ CallCreateDirectory(MaxOps, AnyPath, Quiet)
    \/ CallDeleteDirectory(MaxOps, AnyPath, Faults)
    \/ CallRemove(MaxOps, AnyPath, Faults)
    \/ CallGetDirectoryTree(MaxOps, AnyPath, TreeOptions, {NoFault})
    \/ CallGetDirectoryTree(MaxOps, {P_dot, P_slash}, Everything, {NoFault})
    \/ CallGetMetadata(MaxOps, AnyPath, {NoFault})
    \/ CallGetStorageSize(MaxOps, AnyPath, Units, {NoFault})
    \/ CallRead(MaxOps, AnyPath, {NoFault})
    \/ CallWrite(MaxOps, AnyPath, Contents, Quiet)
    \/ CallAppend(MaxOps, AnyPath, Contents, Quiet)
    \/ CallDelete(MaxOps, AnyPath, Quiet)
    \/ CallCopy(MaxOps, Sources, Destinations, Faults)
    \/ CallMove(MaxOps, Sources, Destinations, MoveFaults)
    \/ CallCopyList(MaxOps, SourceLists, {P_d, P_trustedOut}, {NoFault})
    \/ CallMoveList(MaxOps, SourceLists, {P_d, P_trustedOut}, {NoFault})
    \/ CallZip(MaxOps, Sources, Destinations, Faults)
    \/ CallUnzip(MaxOps, Sources, Destinations, Quiet)

Spec == Init /\ [][Next]_vars

\* The calls during which File.exists or FileStream throws.
NextThrow ==
    \/ CallCreateDirectory(MaxOps, AnyPath, Thrown)
    \/ CallDeleteDirectory(MaxOps, AnyPath, Thrown)
    \/ CallRemove(MaxOps, AnyPath, Thrown)
    \/ CallGetDirectoryTree(MaxOps, AnyPath, {DefaultOptions}, Thrown)
    \/ CallGetMetadata(MaxOps, AnyPath, Thrown)
    \/ CallGetStorageSize(MaxOps, AnyPath, {""}, Thrown)
    \/ CallRead(MaxOps, AnyPath, Thrown)
    \/ CallWrite(MaxOps, AnyPath, Contents, Thrown)
    \/ CallAppend(MaxOps, AnyPath, Contents, Thrown)
    \/ CallDelete(MaxOps, AnyPath, Thrown)
    \/ CallCopy(MaxOps, Sources, Destinations, Thrown)
    \/ CallMove(MaxOps, Sources, Destinations, Thrown)
    \/ CallZip(MaxOps, Sources, Destinations, Thrown)
    \/ CallUnzip(MaxOps, Sources, Destinations, Thrown)

SpecThrow == Init /\ [][NextThrow]_vars

\* Runs of zip and unzip alone: directories packed, into the default
\* archive, an archive beside the directory or one inside it, and archives
\* unpacked, into the default destination or a new directory.
NextTrip ==
    \/ CallZip(MaxTrip, {P_t, P_ts}, {EmptyString, P_zip, P_tzip},
               {NoFault, Fault({}, FALSE, TRUE)})
    \/ CallUnzip(MaxTrip, {P_zip, P_tzip, P_tz}, {EmptyString, P_d}, {NoFault})

SpecTrip == Init /\ [][NextTrip]_vars

\* Runs of getDirectoryTree alone, over a directory of files with and
\* without extensions, under every combination of search conditions.
InitSearch ==
    /\ fs = Skeleton @@ SearchTree
    /\ isSandboxed \in BOOLEAN
    /\ hist = <<>>

SearchExtensions ==
    {Options("name", "asc", FALSE, ext) : ext \in {<<>>, <<"T">>, <<"d", "b">>}}
    \cup {ExtensionArray(DefaultOptions, exts) :
             exts \in {<<>>, << <<"d", "b">>, <<"T">> >>}}

SearchOptions ==
    {Search(o, n, r, c, cr) :
        o \in SearchExtensions, n \in {<<>>, <<"T">>, <<"n">>},
        r \in {<<>>, <<"T">>, <<"(", "x", ")">>},
        c \in {<<>>, <<"x", "y">>}, cr \in {<<>>, <<"y", "(", "y", ")">>}}

NextSearch == CallGetDirectoryTree(MaxOps, {P_t}, SearchOptions, {NoFault})

SpecSearch == InitSearch /\ [][NextSearch]_vars

\* The calls that open streams, while a write or a close() throws or the
\* second stream cannot be opened.
StreamFaults ==
    {Throw(NoFault, {m}) :
        m \in {"OutputStream.write", "FileInputStream.close", "FileOutputStream.close",
               "ZipOutputStream.close", "ZipInputStream.close"}}
    \cup {ClosingBeneath(Throw(NoFault, {m})) :
             m \in {"ZipOutputStream.close", "ZipInputStream.close"}}
    \cup Quiet

NextStream ==
    \/ CallCopy(MaxOps, Sources, Destinations, StreamFaults)
    \/ CallMove(MaxOps, Sources, Destinations,
                {[x EXCEPT !.xdev = v] : x \in StreamFaults, v \in BOOLEAN})
    \/ CallZip(MaxOps, Sources, Destinations, StreamFaults)
    \/ CallUnzip(MaxOps, Sources, Destinations, StreamFaults)

SpecStream == Init /\ [][NextStream]_vars

\* The operations that walk a tree, while another process deletes a node
\* of it.
Races ==
    {Vanishing(Fault({}, FALSE, r), p, w) :
        r \in BOOLEAN, w \in {"listed", "checked"},
        p \in {<<SDCARD, Nt>>, <<SDCARD, Nt, Nx>>, <<SDCARD, Nt, Ns>>,
               <<SDCARD, Nt, Ns, Ny>>, <<SDCARD, Nt, Ne>>}}

NextRace ==
    \/ CallGetStorageSize(MaxOps, {P_t, P_base, P_ts}, {"b"}, Races)
    \/ CallGetDirectoryTree(MaxOps, {P_t, P_base, P_ts}, Everything, Races)
    \/ CallDeleteDirectory(MaxOps, {P_t, P_base, P_ts}, Races)
    \/ CallCopy(MaxOps, {P_t, P_base, P_ts}, {P_d, P_dn}, Races)
    \/ CallZip(MaxOps, {P_t, P_base, P_ts}, {EmptyString, P_d}, Races)

SpecRace == Init /\ [][NextRace]_vars

\* The orders of a walk, and the listing orders of the filesystem.
Orders == {"pre-order", "post-order"}
Listings == {NoFault, Fault({}, FALSE, TRUE)}

\* Runs of copy alone, the destination apart from the source, the source
\* itself, and a directory inside the source.
NextCopy ==
    CallCopy(MaxOps, {P_t, P_tx, P_ts, P_base},
             {P_t, P_tx, P_ts, P_tzip, P_d, P_dn, P_base}, Listings)

SpecCopy == Init /\ [][NextCopy]_vars

\* Runs of _traverseDirectory alone, in either order and listing order.
NextWalk == CallTraverse(MaxOps, AnyPath \cup {P_slash}, {"none", "size"}, Orders, Listings)

SpecWalk == Init /\ [][NextWalk]_vars

\* Runs of createDirectory alone, the same path more than once.
\* deleteDirectory and remove alone, over files, directories and paths that
\* do not exist, while the filesystem refuses a delete, lists in either
\* order, or cannot read a directory.
Locked == {{}, {<<SDCARD, Nt>>}, {<<SDCARD, Nt, Ns>>}}
DeleteFaults == {Unreadable(x, u) : x \in Faults, u \in Locked}

NextDelete ==
    \/ CallDeleteDirectory(MaxOps, AnyPath, DeleteFaults)
    \/ CallRemove(MaxOps, AnyPath, DeleteFaults)

SpecDelete == Init /\ [][NextDelete]_vars

NextCreate == CallCreateDirectory(MaxTrip, AnyPath, Quiet)

SpecCreate == Init /\ [][NextCreate]_vars

\* Runs of remove alone.
NextRemove == CallRemove(MaxTrip, AnyPath, Faults)

SpecRemove == Init /\ [][NextRemove]_vars

(***************************************************************************)
(* The calls of a run, as hist records them.                               *)
(***************************************************************************)
Calls == 1..Len(hist)

\* The filesystem as the i-th call left it.
After(i) == IF i = Len(hist) THEN fs ELSE hist[i + 1].pre

\* What the host decided during the i-th call.
EnvOf(i) == Env(hist[i].fault, SubSeq(hist, 1, i - 1))

\* The nodes made, removed or altered between two filesystems.
Touched(pre, post) ==
    {p \in DOMAIN pre \cup DOMAIN post :
        p \notin DOMAIN pre \/ p \notin DOMAIN post \/ pre[p] # post[p]}

\* The paths the caller gave: zip and unzip take an empty second path as
\* none given.
PathsOf(h) ==
    {h.a} \cup (IF h.op \in {"copy", "move"}
                    \/ (h.op \in {"zip", "unzip"} /\ h.b # EmptyString)
                 THEN {h.b} ELSE {})

\* The value an operation returns when it fails.
Sentinel(op) ==
    IF op \in {"createDirectory", "deleteDirectory", "remove", "delete", "copy", "move"}
    THEN "false" ELSE "null"

\* The file is the base directory or lies under it.
InBase(file) == Under(Canonical(file), Canonical(basePath))

\* The path's canonical form is outside the base directory, yet begins
\* with the base directory's path as a string ("/sdcard2" for "/sdcard").
MerePrefix(up) ==
    /\ up # EmptyString
    /\ ~InBase(resolvedFile(up))
    /\ StartsWith(getCanonicalPath(resolvedFile(up)), getCanonicalPath(basePath))

(***************************************************************************)
(* C1: on a sandboxed instance, a call given a path whose canonical form   *)
(* only begins with the base directory's string, without being the base    *)
(* directory or a path under it, returns its failure value and leaves the  *)
(* filesystem as it was.                                                   *)
(***************************************************************************)
C1_SeparatorBoundary ==
    isSandboxed =>
        \A i \in Calls :
            (\E p \in PathsOf(hist[i]) : MerePrefix(p)) =>
                /\ hist[i].ret = Sentinel(hist[i].op)
                /\ After(i) = hist[i].pre

(***************************************************************************)
(* C2: on a sandboxed instance, _resolvePath returns null for every path   *)
(* given (relative, absolute or with the "sdcard/" prefix) whose canonical *)
(* form is outside the base directory.                                     *)
(***************************************************************************)
C2_EscapeRejected ==
    isSandboxed =>
        \A i \in Calls : \A p \in PathsOf(hist[i]) :
            (p # EmptyString /\ ~InBase(resolvedFile(p))) =>
                _resolvePath(isSandboxed, p) = NullFile

(***************************************************************************)
(* C3: a call one of whose paths does not resolve returns the failure      *)
(* value of its operation and leaves the filesystem exactly as it was.     *)
(***************************************************************************)
C3_ResolveFirst ==
    \A i \in Calls :
        (\E p \in PathsOf(hist[i]) : _resolvePath(isSandboxed, p) = NullFile) =>
            /\ hist[i].ret = Sentinel(hist[i].op)
            /\ After(i) = hist[i].pre

\* move was called with a source that exists and a destination that does
\* not resolve.
C3_MoveRejected ==
    \E i \in Calls :
        /\ hist[i].op = "move"
        /\ _resolvePath(isSandboxed, hist[i].a) # NullFile
        /\ exists(hist[i].pre, _resolvePath(isSandboxed, hist[i].a))
        /\ _resolvePath(isSandboxed, hist[i].b) = NullFile
        /\ hist[i].ret = "false"

(***************************************************************************)
(* C4: on a sandboxed instance, every node a call made, removed or altered *)
(* is the base directory or lies under it, whether its path was given by   *)
(* the caller or derived (the default archive of zip, the default          *)
(* destination of unzip, the parents copy and move make).                  *)
(***************************************************************************)
C4_Confined ==
    isSandboxed =>
        \A i \in Calls : \A p \in Touched(hist[i].pre, After(i)) :
            Under(p, Canonical(basePath))

\* zip, given the base directory and no archive path, wrote the archive
\* next to the base directory.
C4_DefaultArchive ==
    isSandboxed =>
        \A i \in Calls :
            (hist[i].op = "zip" /\ hist[i].a = P_base /\ hist[i].b = EmptyString) =>
                \A p \in Touched(hist[i].pre, After(i)) : Under(p, Canonical(basePath))

(***************************************************************************)
(* C5: when an entry of the archive, joined to the destination, is not     *)
(* strictly under the destination directory, unzip returns null and every  *)
(* node it made or wrote is the destination directory, a node under it, or *)
(* a missing ancestor of the destination that mkdirs made on the way.      *)
(***************************************************************************)
UnzipSource(h) == _resolvePath(isSandboxed, h.a)

UnzipDest(h) ==
    IF h.b # EmptyString THEN _resolvePath(isSandboxed, h.b)
    ELSE DefaultDestDirectory(UnzipSource(h))

\* unzip got as far as the entries, and one of them leaves the destination.
Escaping(h) ==
    /\ h.op = "unzip"
    /\ UnzipSource(h) # NullFile
    /\ isFile(h.pre, UnzipSource(h))
    /\ UnzipDest(h) # NullFile
    /\ \E k \in DOMAIN h.pre[Canonical(UnzipSource(h))].data.entries :
           ~StrictlyUnder(
               Canonical(NewChild(UnzipDest(h),
                                  h.pre[Canonical(UnzipSource(h))].data.entries[k].name)),
               Canonical(UnzipDest(h)))

C5_ZipSlip ==
    \A i \in Calls :
        Escaping(hist[i]) =>
            /\ hist[i].ret = "null"
            /\ \A p \in Touched(hist[i].pre, After(i)) :
                   \/ Under(p, Canonical(UnzipDest(hist[i])))
                   \/ /\ Under(Canonical(UnzipDest(hist[i])), p)
                      /\ p \notin DOMAIN hist[i].pre
                      /\ After(i)[p].kind = "dir"

\* unzip stopped at an entry that leaves the destination, after it had
\* written an earlier entry into the destination.
C5_Stopped ==
    \E i \in Calls :
        /\ Escaping(hist[i])
        /\ \E p \in Touched(hist[i].pre, After(i)) :
               StrictlyUnder(p, Canonical(UnzipDest(hist[i])))

(***************************************************************************)
(* C6: zip of a directory T into an archive, then unzip of that archive    *)
(* into a destination that is missing or empty, leaves under the           *)
(* destination the relative file paths, with their bytes, and the empty    *)
(* directories that were under T.                                          *)
(***************************************************************************)
\* The files (relative path and data) and the empty directories under root.
RelTree(f, root) ==
    LET r == Canonical(root)
        below == {q \in DOMAIN f : StrictlyUnder(q, r)}
        rel(q) == SubSeq(q, Len(r) + 1, Len(q))
    IN  [files |-> {<<rel(q), f[q].data>> : q \in {x \in below : f[x].kind = "file"}},
         emptyDirs |-> {rel(q) : q \in {x \in below : f[x].kind = "dir"
                                                      /\ ChildPaths(f, x) = {}}}]

IsEmptyDestination(f, file) ==
    ~exists(f, file) \/ (isDirectory(f, file) /\ ChildPaths(f, Canonical(file)) = {})

\* Call i packed the directory and call i + 1 unpacked the archive it made
\* into an empty destination.
IsRoundTrip(i) ==
    /\ hist[i].op = "zip" /\ hist[i].ret = "value"
    /\ isDirectory(hist[i].pre, _resolvePath(isSandboxed, hist[i].a))
    /\ hist[i + 1].op = "unzip" /\ hist[i + 1].ret = "value"
    /\ Canonical(_resolvePath(isSandboxed, hist[i + 1].a)) = Canonical(hist[i].file)
    /\ IsEmptyDestination(hist[i + 1].pre, hist[i + 1].file)

C6_RoundTrip ==
    \A i \in 1..(Len(hist) - 1) :
        IsRoundTrip(i) =>
            RelTree(After(i + 1), hist[i + 1].file)
                = RelTree(hist[i].pre, _resolvePath(isSandboxed, hist[i].a))

\* The same, for an archive that is not written into the directory packed.
C6_ArchiveOutside ==
    \A i \in 1..(Len(hist) - 1) :
        (IsRoundTrip(i) /\ ~Under(Canonical(hist[i].file),
                                  Canonical(_resolvePath(isSandboxed, hist[i].a)))) =>
            RelTree(After(i + 1), hist[i + 1].file)
                = RelTree(hist[i].pre, _resolvePath(isSandboxed, hist[i].a))

(***************************************************************************)
(* C7: when move cannot rename and the copy it falls back on returns       *)
(* false, move returns false and every node of the source subtree is still *)
(* there, of the same kind and with the same content.                      *)
(***************************************************************************)
\* The i-th call is a move whose rename failed and whose copy failed.
CopyFailed(i) ==
    LET h == hist[i]
        source == _resolvePath(isSandboxed, h.a)
        destination == _resolvePath(isSandboxed, h.b)
        f1 == WithParent(h.pre, destination, EnvOf(i))
    IN  /\ h.op = "move"
        /\ source # NullFile /\ destination # NullFile
        /\ exists(h.pre, source)
        /\ ~renameTo(f1, source, destination, EnvOf(i)).ok
        /\ copy(f1, isSandboxed, AsUserPath(source), AsUserPath(destination),
                EnvOf(i)).ret = "false"

\* Every node under root in pre is in post, with its kind and content.
Intact(pre, post, root) ==
    \A p \in DOMAIN pre :
        Under(p, Canonical(root)) =>
            /\ p \in DOMAIN post
            /\ post[p].kind = pre[p].kind
            /\ post[p].data = pre[p].data

C7_SourceIntact ==
    \A i \in Calls :
        CopyFailed(i) =>
            /\ hist[i].ret = "false"
            /\ Intact(hist[i].pre, After(i), _resolvePath(isSandboxed, hist[i].a))

\* The same, for a destination that is not inside the source.
C7_Apart ==
    \A i \in Calls :
        (CopyFailed(i) /\ ~Under(Canonical(_resolvePath(isSandboxed, hist[i].b)),
                                 Canonical(_resolvePath(isSandboxed, hist[i].a)))) =>
            /\ hist[i].ret = "false"
            /\ Intact(hist[i].pre, After(i), _resolvePath(isSandboxed, hist[i].a))

(***************************************************************************)
(* C8: remove of a path that resolves and does not exist returns true and  *)
(* leaves the filesystem as it was; and once remove(p) has returned true,  *)
(* every later remove(p) returns true.                                     *)
(***************************************************************************)
C8_Idempotent ==
    \A i \in Calls :
        hist[i].op = "remove" =>
            /\ (/\ _resolvePath(isSandboxed, hist[i].a) # NullFile
                /\ ~exists(hist[i].pre, _resolvePath(isSandboxed, hist[i].a))) =>
                   (hist[i].ret = "true" /\ After(i) = hist[i].pre)
            /\ \A j \in Calls :
                   (/\ i < j
                    /\ hist[j].op = "remove" /\ hist[j].a = hist[i].a
                    /\ hist[i].ret = "true") => hist[j].ret = "true"

\* remove deleted something that was there, and was called again on it.
C8_Repeated ==
    \E i, j \in Calls :
        /\ i < j
        /\ hist[i].op = "remove" /\ hist[j].op = "remove" /\ hist[j].a = hist[i].a
        /\ exists(hist[i].pre, _resolvePath(isSandboxed, hist[i].a))
        /\ hist[i].ret = "true"
        /\ ~exists(hist[j].pre, _resolvePath(isSandboxed, hist[j].a))
        /\ hist[j].ret = "true" /\ After(j) = hist[j].pre

(***************************************************************************)
(* C9: getStorageSize of a directory is the byte total of its immediate    *)
(* children, converted to the unit and rounded once.  In bytes it equals   *)
(* the sum of getStorageSize over the children; in the other units the     *)
(* children's results are each rounded, so the sum of the children may     *)
(* differ from the directory's result, by at most half a hundredth for the *)
(* directory and for each child.  Numbers are in hundredths.               *)
(***************************************************************************)
RECURSIVE SumOfSizes(_, _, _, _)
SumOfSizes(f, children, unit, env) ==
    IF children = <<>> THEN 0
    ELSE getStorageSize(f, isSandboxed, AsUserPath(Head(children)), unit, env).num
         + SumOfSizes(f, Tail(children), unit, env)

\* The i-th call asked for the size of a directory and got a number.
IsSizeOfDirectory(i) ==
    /\ hist[i].op = "getStorageSize"
    /\ hist[i].ret = "value"
    /\ isDirectory(hist[i].pre, _resolvePath(isSandboxed, hist[i].a))

\* The children of the directory of the i-th call.
ChildrenOf(i) ==
    listFiles(hist[i].pre, _resolvePath(isSandboxed, hist[i].a), EnvOf(i))

\* The result of the i-th call less the sum of the results for the children.
Apart(i) ==
    hist[i].num - SumOfSizes(hist[i].pre, ChildrenOf(i), hist[i].extra.unit, EnvOf(i))

C9_AdditiveInBytes ==
    \A i \in Calls :
        IsSizeOfDirectory(i) =>
            /\ hist[i].num =
                   _convertSize(SumOfSizes(hist[i].pre, ChildrenOf(i), "b", EnvOf(i)) \div 100,
                                IF hist[i].extra.unit = "" THEN "mb" ELSE hist[i].extra.unit)
            /\ hist[i].extra.unit = "b" => Apart(i) = 0
            /\ 2 * Apart(i) <= Len(ChildrenOf(i)) + 1
            /\ 0 - 2 * Apart(i) <= Len(ChildrenOf(i)) + 1

\* The claim as it stands: the results for the children add up to the
\* result for the directory, in every unit.
C9_Additive ==
    \A i \in Calls : IsSizeOfDirectory(i) => Apart(i) = 0

\* A directory whose size in a unit is not the sum of its children's sizes
\* in that unit.
C9_RoundedApart ==
    \E i \in Calls :
        /\ IsSizeOfDirectory(i)
        /\ Len(ChildrenOf(i)) >= 2
        /\ Apart(i) # 0

(***************************************************************************)
(* C10: in the lines getDirectoryTree returns, among the lines of one      *)
(* directory's entries no line of a file comes before the line of a        *)
(* sub-directory, whatever the sort key and the sort order.                *)
(***************************************************************************)
\* The number of characters of a line before the name.
Indent(line) ==
    LET named == {k \in 1..Len(line) : line[k] \notin {"|", " ", "+", "L"}}
    IN  IF named = {} THEN Len(line)
        ELSE (CHOOSE k \in named : \A m \in named : k <= m) - 1

\* The depth of a line: 0 for the first line, d for an indent of 3d - 1.
LevelOf(line) == (Indent(line) + 1) \div 3

IsDirectoryLine(line) == Len(line) > 0 /\ line[Len(line)] = "/"

\* Lines i and j are entries of the same directory, i the earlier.
Siblings(lines, i, j) ==
    /\ i < j
    /\ LevelOf(lines[i]) = LevelOf(lines[j])
    /\ \A k \in i..j : LevelOf(lines[k]) >= LevelOf(lines[i])

C10_DirectoriesFirst ==
    \A c \in Calls :
        (hist[c].op = "getDirectoryTree" /\ hist[c].ret = "value") =>
            \A i, j \in DOMAIN hist[c].lines :
                (Siblings(hist[c].lines, i, j) /\ IsDirectoryLine(hist[c].lines[j])) =>
                    IsDirectoryLine(hist[c].lines[i])

\* A tree sorted in descending order that shows, in one directory, a
\* sub-directory and after it a file.
C10_MixedLevel ==
    \E c \in Calls :
        /\ hist[c].op = "getDirectoryTree" /\ hist[c].ret = "value"
        /\ hist[c].extra.opts.order = "desc"
        /\ \E i, j \in DOMAIN hist[c].lines :
               /\ Siblings(hist[c].lines, i, j)
               /\ IsDirectoryLine(hist[c].lines[i])
               /\ ~IsDirectoryLine(hist[c].lines[j])

\* The name a line shows, without its indent and its final "/".
NameOfLine(line) ==
    SubSeq(line, Indent(line) + 1,
           IF IsDirectoryLine(line) THEN Len(line) - 1 ELSE Len(line))

\* The directory the i-th call, a getDirectoryTree, was given.
TreeRoot(i) == Canonical(_resolvePath(isSandboxed, hist[i].a))

SubDirectories(f, root) ==
    {p \in DOMAIN f : StrictlyUnder(p, root) /\ f[p].kind = "dir"}

\* Some file somewhere under dir passes the filters of opts.
HoldsPassingFile(f, dir, opts) ==
    \E p \in DOMAIN f :
        StrictlyUnder(p, dir) /\ f[p].kind = "file" /\ PassesFilter(f, p, opts)

\* The sub-directories the claim says the tree shows.
Listed(f, root, opts) ==
    {p \in SubDirectories(f, root) :
        opts.showEmptyFolders \/ HoldsPassingFile(f, p, opts)}

DirectoryLines(lines) == {k \in 2..Len(lines) : IsDirectoryLine(lines[k])}

HasSearch(opts) ==
    opts.extension # <<>> \/ opts.isArray \/ opts.name # <<>> \/ opts.regex # <<>>
    \/ hasContentSearch(opts)

(***************************************************************************)
(* C11: in the tree getDirectoryTree returns, a sub-directory has a line   *)
(* exactly when showEmptyFolders is set or some file somewhere under it    *)
(* passes every search condition (as many directory lines as such          *)
(* sub-directories, at their depths, with their names); with               *)
(* showEmptyFolders unset and no file passing, the tree is the root line   *)
(* alone.                                                                  *)
(***************************************************************************)
C11_PrunedUnlessShown ==
    \A c \in Calls :
        (hist[c].op = "getDirectoryTree" /\ hist[c].ret = "value") =>
            /\ {<<LevelOf(hist[c].lines[k]), NameOfLine(hist[c].lines[k])>> :
                    k \in DirectoryLines(hist[c].lines)}
               = {<<Len(p) - Len(TreeRoot(c)), p[Len(p)]>> :
                    p \in Listed(hist[c].pre, TreeRoot(c), hist[c].extra.opts)}
            /\ Cardinality(DirectoryLines(hist[c].lines))
               = Cardinality(Listed(hist[c].pre, TreeRoot(c), hist[c].extra.opts))
            /\ (/\ ~hist[c].extra.opts.showEmptyFolders
                /\ ~HoldsPassingFile(hist[c].pre, TreeRoot(c), hist[c].extra.opts))
               => Len(hist[c].lines) = 1

\* A tree made under a search condition, empty folders not shown, that
\* lists one sub-directory and leaves out another that holds a file.
C11_OneListedOneLeftOut ==
    \E c \in Calls :
        /\ hist[c].op = "getDirectoryTree" /\ hist[c].ret = "value"
        /\ HasSearch(hist[c].extra.opts)
        /\ ~hist[c].extra.opts.showEmptyFolders
        /\ DirectoryLines(hist[c].lines) # {}
        /\ \E p \in SubDirectories(hist[c].pre, TreeRoot(c)) :
               /\ \E q \in DOMAIN hist[c].pre :
                      StrictlyUnder(q, p) /\ hist[c].pre[q].kind = "file"
               /\ p \notin Listed(hist[c].pre, TreeRoot(c), hist[c].extra.opts)

\* The operations that hand the path to FileStream.
FileStreamOps == {"read", "write", "append", "delete"}

\* A primitive threw during the i-th call: the path resolved, and the call
\* went on to FileStream, or to File.exists, with that primitive throwing.
Threw(i) ==
    /\ _resolvePath(isSandboxed, hist[i].a) # NullFile
    /\ \/ hist[i].op \in FileStreamOps /\ "FileStream" \in hist[i].fault.throws
       \/ hist[i].op \notin FileStreamOps /\ "File.exists" \in hist[i].fault.throws

(***************************************************************************)
(* C12: no call of a public operation ends with an exception: every call   *)
(* returns, and a call during which a primitive threw returns the          *)
(* operation's failure value.                                              *)
(***************************************************************************)
C12_NothingEscapes ==
    \A c \in Calls :
        /\ hist[c].ret # Escaped
        /\ Threw(c) => hist[c].ret = Sentinel(hist[c].op)

\* The i-th call was given an array of source paths, each of them a path
\* that resolves to something that exists, and a destination that resolves.
GivenExistingSources(i) ==
    /\ hist[i].op \in {"copy", "move"}
    /\ hist[i].extra.list # <<>>
    /\ \A k \in DOMAIN hist[i].extra.list :
           /\ _resolvePath(isSandboxed, hist[i].extra.list[k]) # NullFile
           /\ exists(hist[i].pre, _resolvePath(isSandboxed, hist[i].extra.list[k]))
    /\ _resolvePath(isSandboxed, hist[i].b) # NullFile

(***************************************************************************)
(* C13: copy and move take an array of source paths: given an array of     *)
(* paths that exist and a destination, the call returns true.              *)
(***************************************************************************)
C13_ListOfSources ==
    \A c \in Calls : GivenExistingSources(c) => hist[c].ret = "true"

\* The same for an array of one path, which String() turns into that path.
C13_ListOfOne ==
    \A c \in Calls :
        (GivenExistingSources(c) /\ Len(hist[c].extra.list) = 1) => hist[c].ret = "true"

\* The i-th call is a deleteDirectory of a directory.
DeletesDirectory(i) ==
    /\ hist[i].op = "deleteDirectory"
    /\ _resolvePath(isSandboxed, hist[i].a) # NullFile
    /\ isDirectory(hist[i].pre, _resolvePath(isSandboxed, hist[i].a))

\* The nodes of f at or under the directory the i-th call was given.
Doomed(i, f) == {p \in DOMAIN f : Under(p, Canonical(_resolvePath(isSandboxed, hist[i].a)))}

(***************************************************************************)
(* C14: deleteDirectory of a directory tries to delete every node of the   *)
(* subtree, whatever fails: afterwards a node of the subtree is left       *)
(* exactly when its own deletion is refused or, for a directory, something *)
(* under it is left (children are tried before their parent); what is left *)
(* is as it was, nothing outside the subtree changes, and the call returns *)
(* true exactly when nothing is left.                                      *)
(***************************************************************************)
C14_BestEffort ==
    \A c \in Calls :
        DeletesDirectory(c) =>
            /\ \A p \in Doomed(c, hist[c].pre) :
                   /\ p \in DOMAIN After(c) <=>
                          \/ ~Permits(p, EnvOf(c))
                          \/ \E q \in DOMAIN After(c) : StrictlyUnder(q, p)
                   /\ p \in DOMAIN After(c) => After(c)[p] = hist[c].pre[p]
            /\ Touched(hist[c].pre, After(c)) \subseteq Doomed(c, hist[c].pre)
            /\ hist[c].ret = Bool(Doomed(c, After(c)) = {})

\* A deleteDirectory that returned false: a node of the directory was
\* refused and is left, and a node listed after it in the same directory
\* is gone.
C14_WentOn ==
    \E c \in Calls :
        /\ DeletesDirectory(c)
        /\ hist[c].ret = "false"
        /\ \E p \in Doomed(c, After(c)), q \in Doomed(c, hist[c].pre) :
               /\ ~Permits(p, EnvOf(c))
               /\ q \notin DOMAIN After(c)
               /\ Len(p) = Len(q) /\ SubSeq(p, 1, Len(p) - 1) = SubSeq(q, 1, Len(q) - 1)
               /\ CompareNames(p[Len(p)], q[Len(q)]) = (IF hist[c].fault.rev THEN 1 ELSE -1)

\* The i-th call is a copy that returned true, of a directory to a path
\* that did not exist and is neither inside the directory nor around it.
CopiedDirectory(i) ==
    /\ hist[i].op = "copy" /\ hist[i].ret = "true"
    /\ _resolvePath(isSandboxed, hist[i].a) # NullFile
    /\ _resolvePath(isSandboxed, hist[i].b) # NullFile
    /\ isDirectory(hist[i].pre, _resolvePath(isSandboxed, hist[i].a))
    /\ ~exists(hist[i].pre, _resolvePath(isSandboxed, hist[i].b))
    /\ ~Under(Canonical(_resolvePath(isSandboxed, hist[i].b)),
              Canonical(_resolvePath(isSandboxed, hist[i].a)))
    /\ ~Under(Canonical(_resolvePath(isSandboxed, hist[i].a)),
              Canonical(_resolvePath(isSandboxed, hist[i].b)))

\* The filesystem refused nothing the i-th call, a copy, had to make.
NothingRefused(i) ==
    /\ hist[i].fault.deny = {}
    /\ \A p \in DOMAIN hist[i].pre :
           Under(p, Canonical(_resolvePath(isSandboxed, hist[i].a))) =>
               Len(Canonical(_resolvePath(isSandboxed, hist[i].b))) + Len(p)
               - Len(Canonical(_resolvePath(isSandboxed, hist[i].a))) <= MaxDepth

(***************************************************************************)
(* C15: after a copy that returned true, of a directory to a destination   *)
(* that did not exist and is apart from the source, the destination is a   *)
(* directory holding exactly what the source holds: the same files at the  *)
(* same relative paths with the same bytes, and the same directories, the  *)
(* empty ones included.                                                    *)
(***************************************************************************)
C15_ExactCopy ==
    \A c \in Calls :
        CopiedDirectory(c) =>
            /\ isDirectory(After(c), _resolvePath(isSandboxed, hist[c].b))
            /\ RelTree(After(c), _resolvePath(isSandboxed, hist[c].b))
               = RelTree(hist[c].pre, _resolvePath(isSandboxed, hist[c].a))

\* The same, for the calls during which the filesystem refused nothing.
C15_Unrefused ==
    \A c \in Calls :
        (CopiedDirectory(c) /\ NothingRefused(c)) =>
            /\ isDirectory(After(c), _resolvePath(isSandboxed, hist[c].b))
            /\ RelTree(After(c), _resolvePath(isSandboxed, hist[c].b))
               = RelTree(hist[c].pre, _resolvePath(isSandboxed, hist[c].a))

\* A copy of a directory that returned true although its destination could
\* not be made.
C15_NothingMade ==
    \E c \in Calls :
        /\ CopiedDirectory(c)
        /\ Canonical(_resolvePath(isSandboxed, hist[c].b)) \in hist[c].fault.deny
        /\ ~exists(After(c), _resolvePath(isSandboxed, hist[c].b))

\* One of the two patterns of the options is one that RegExp rejects.
Malformed(opts) ==
    \/ opts.regex # <<>> /\ RegExpThrows(opts.regex)
    \/ opts.contentRegex # <<>> /\ RegExpThrows(opts.contentRegex)

(***************************************************************************)
(* C16: getDirectoryTree given a malformed search.regex or                 *)
(* search.contentRegex returns the invalid-pattern string whatever the     *)
(* path is (a directory, a file, a missing path, a path that does not      *)
(* resolve); it returns null only when the patterns are well-formed.       *)
(***************************************************************************)
C16_InvalidPatternFirst ==
    \A c \in Calls :
        hist[c].op = "getDirectoryTree" =>
            /\ Malformed(hist[c].extra.opts) => hist[c].ret = InvalidPattern
            /\ hist[c].ret = "null" => ~Malformed(hist[c].extra.opts)

\* The same for the paths that resolve: a directory, a file, a missing path.
C16_Resolved ==
    \A c \in Calls :
        (/\ hist[c].op = "getDirectoryTree"
         /\ _resolvePath(isSandboxed, hist[c].a) # NullFile
         /\ Malformed(hist[c].extra.opts)) => hist[c].ret = InvalidPattern

\* The i-th call is a createDirectory of a path that resolves.
Creates(i) ==
    /\ hist[i].op = "createDirectory"
    /\ _resolvePath(isSandboxed, hist[i].a) # NullFile

\* The directory the i-th call was to make, and the paths down to it.
Wanted(i) == Canonical(_resolvePath(isSandboxed, hist[i].a))
DownTo(p) == {SubSeq(p, 1, k) : k \in 0..Len(p)}

\* Nothing stands in the way of making p in f: none of the paths down to
\* it is refused, and those that exist are directories.
CanMake(f, p, env) ==
    \A q \in DownTo(p) :
        IF q \in DOMAIN f THEN f[q].kind = "dir" ELSE Permits(q, env)

(***************************************************************************)
(* C17: createDirectory of a path that exists, directory or file, returns  *)
(* true and changes nothing; of a path that does not exist it makes the    *)
(* directory and its missing ancestors, and nothing else, and returns true *)
(* when nothing stands in the way; and once it has returned true, the next *)
(* createDirectory of the same path returns true and changes nothing.      *)
(***************************************************************************)
C17_Idempotent ==
    \A c \in Calls :
        Creates(c) =>
            /\ exists(hist[c].pre, _resolvePath(isSandboxed, hist[c].a)) =>
                   hist[c].ret = "true" /\ After(c) = hist[c].pre
            /\ (/\ IsPath(_resolvePath(isSandboxed, hist[c].a))
                /\ Wanted(c) \notin DOMAIN hist[c].pre
                /\ CanMake(hist[c].pre, Wanted(c), EnvOf(c))) => hist[c].ret = "true"
            /\ (Wanted(c) \notin DOMAIN hist[c].pre /\ hist[c].ret = "true") =>
                   /\ \A q \in DownTo(Wanted(c)) :
                          q \in DOMAIN After(c) /\ After(c)[q].kind = "dir"
                   /\ Touched(hist[c].pre, After(c))
                      = DownTo(Wanted(c)) \ DOMAIN hist[c].pre
            /\ (/\ hist[c].ret = "true"
                /\ c + 1 \in Calls
                /\ hist[c + 1].op = "createDirectory"
                /\ hist[c + 1].a = hist[c].a) =>
                   hist[c + 1].ret = "true" /\ After(c + 1) = After(c)

\* createDirectory made a directory together with a missing ancestor, and
\* the createDirectory of the same path after it returned true.
C17_MadeThenRepeated ==
    \E c \in Calls :
        /\ Creates(c) /\ hist[c].ret = "true"
        /\ Cardinality(Touched(hist[c].pre, After(c))) >= 2
        /\ c + 1 \in Calls
        /\ hist[c + 1].op = "createDirectory" /\ hist[c + 1].a = hist[c].a
        /\ hist[c + 1].ret = "true"

\* The i-th call is a zip of a directory that returned the archive's path.
ZippedDirectory(i) ==
    /\ hist[i].op = "zip" /\ hist[i].ret = "value"
    /\ isDirectory(hist[i].pre, _resolvePath(isSandboxed, hist[i].a))

\* The entries of the archive the i-th call wrote.
EntriesOf(i) == After(i)[Canonical(hist[i].file)].data.entries

\* A relative path as an entry name: its names with "/" between them.
RelativeName(rel) == Tail(PathString(rel))

\* The entries written are those the claim names for the directory as it
\* was before the call.
IsPackOf(es, tree) ==
    /\ {es[k].name : k \in {j \in DOMAIN es : ~es[j].dir}}
       = {RelativeName(x[1]) : x \in tree.files}
    /\ {es[k].name : k \in {j \in DOMAIN es : es[j].dir}}
       = {RelativeName(r) \o File_separator : r \in tree.emptyDirs}
    /\ \A j, k \in DOMAIN es : es[j].name = es[k].name => j = k
    /\ \A k \in DOMAIN es :
           /\ <<Head(es[k].name)>> # File_separator
           /\ es[k].dir <=> EndsWith(es[k].name, File_separator)

(***************************************************************************)
(* C18: the archive zip writes for a directory has one entry for each file *)
(* under the directory, named by the file's path relative to the directory *)
(* with "/" between the names (no "/" in front, the directory's own name   *)
(* not in front), one entry ending in "/" for each empty directory under   *)
(* it, and no other entry: none for a directory that is not empty, none    *)
(* for the directory itself.                                               *)
(***************************************************************************)
C18_OneEntryEach ==
    \A c \in Calls :
        ZippedDirectory(c) =>
            IsPackOf(EntriesOf(c), RelTree(hist[c].pre, _resolvePath(isSandboxed, hist[c].a)))

\* The same, for an archive that is not written into the directory packed.
C18_ArchiveApart ==
    \A c \in Calls :
        (ZippedDirectory(c) /\ ~Under(Canonical(hist[c].file),
                                      Canonical(_resolvePath(isSandboxed, hist[c].a)))) =>
            IsPackOf(EntriesOf(c), RelTree(hist[c].pre, _resolvePath(isSandboxed, hist[c].a)))

\* The paths that stand for "everything": none, "." and "/".
Wholes == {EmptyString, P_dot, P_slash}

\* The tree of the base directory, as the i-th call would have got it for
\* the base directory's own path.
BaseTree(i) ==
    getDirectoryTree(hist[i].pre, TRUE, AsUserPath(basePath), hist[i].extra.opts, EnvOf(i))

(***************************************************************************)
(* C19: on a sandboxed instance, getDirectoryTree called with no path,     *)
(* with "." or with "/" returns the tree of the base directory, not null   *)
(* (the lines under the first line are those of the base directory).       *)
(***************************************************************************)
C19_WholeSandbox ==
    \A c \in Calls :
        (isSandboxed /\ hist[c].op = "getDirectoryTree" /\ hist[c].a \in Wholes) =>
            /\ hist[c].ret = "value"
            /\ Tail(hist[c].lines) = Tail(BaseTree(c).lines)

\* The same for "." alone.
C19_Dot ==
    \A c \in Calls :
        (isSandboxed /\ hist[c].op = "getDirectoryTree" /\ hist[c].a = P_dot) =>
            /\ hist[c].ret = "value"
            /\ Tail(hist[c].lines) = Tail(BaseTree(c).lines)

\* On a sandboxed instance no path and "/" give null.
C19_NullForNoneAndSlash ==
    \A c \in Calls :
        (/\ isSandboxed /\ hist[c].op = "getDirectoryTree"
         /\ hist[c].a \in {EmptyString, P_slash}) => hist[c].ret = "null"

\* The entries of the archive the call h, an unzip, reads, and the path
\* the k-th of them names under the destination.
Unpacked(h) == h.pre[Canonical(UnzipSource(h))].data.entries
TargetOf(h, k) == Canonical(NewChild(UnzipDest(h), Unpacked(h)[k].name))

\* The k-th entry leaves the destination, and no entry before it does.
FirstEscaping(h, k) ==
    /\ ~StrictlyUnder(TargetOf(h, k), Canonical(UnzipDest(h)))
    /\ \A j \in 1..(k - 1) : StrictlyUnder(TargetOf(h, j), Canonical(UnzipDest(h)))

\* Node p is in post what it was in pre: missing, or there and the same.
Same(pre, post, p) ==
    IF p \in DOMAIN pre THEN p \in DOMAIN post /\ post[p] = pre[p]
    ELSE p \notin DOMAIN post

\* The k-th entry of the call is in f: its directory, or its file with the
\* entry's data.
Extracted(h, k, f) ==
    /\ TargetOf(h, k) \in DOMAIN f
    /\ IF Unpacked(h)[k].dir THEN f[TargetOf(h, k)].kind = "dir"
       ELSE f[TargetOf(h, k)].kind = "file" /\ f[TargetOf(h, k)].data = Unpacked(h)[k].data

(***************************************************************************)
(* C20: unzip takes the entries in the order of the archive and stops at   *)
(* the first that leaves the destination: it returns null, what the        *)
(* entries from that one on name is as it was before the call (unless an   *)
(* earlier entry names it too), and what the entries before it name has    *)
(* been extracted and stays, when the filesystem refused nothing.          *)
(***************************************************************************)
C20_StopsAtFirst ==
    \A c \in Calls :
        Escaping(hist[c]) =>
            \A k \in DOMAIN Unpacked(hist[c]) :
                FirstEscaping(hist[c], k) =>
                    /\ hist[c].ret = "null"
                    /\ \A j \in k..Len(Unpacked(hist[c])) :
                           \/ \E i \in 1..(k - 1) :
                                  Under(TargetOf(hist[c], i), TargetOf(hist[c], j))
                           \/ Same(hist[c].pre, After(c), TargetOf(hist[c], j))
                    /\ \A j \in 1..(k - 1) :
                           CanMake(hist[c].pre,
                                   SubSeq(TargetOf(hist[c], j), 1,
                                          Len(TargetOf(hist[c], j)) - 1),
                                   EnvOf(c))
                           /\ Permits(TargetOf(hist[c], j), EnvOf(c))
                           => Extracted(hist[c], j, After(c))

\* An unzip that stopped at its second entry: the first is extracted, the
\* third, which the destination could hold, is not there.
C20_StoppedMidway ==
    \E c \in Calls :
        /\ Escaping(hist[c])
        /\ Len(Unpacked(hist[c])) >= 3
        /\ FirstEscaping(hist[c], 2)
        /\ TargetOf(hist[c], 1) \notin DOMAIN hist[c].pre
        /\ Extracted(hist[c], 1, After(c))
        /\ StrictlyUnder(TargetOf(hist[c], 3), Canonical(UnzipDest(hist[c])))
        /\ TargetOf(hist[c], 3) \notin DOMAIN After(c)
        /\ hist[c].ret = "null"

(***************************************************************************)
(* _traverseDirectory: which callbacks it makes, and in which order.       *)
(***************************************************************************)
Walks == {i \in Calls : hist[i].op = "_traverseDirectory"}

\* The nodes at and under the file in the filesystem f.
Subtree(f, file) ==
    IF exists(f, file) THEN {q \in DOMAIN f : Under(q, Canonical(file))} ELSE {}

\* The positions in visits of the callbacks given the node q, and the one.
VisitsOf(visits, q) == {k \in 1..Len(visits) : Canonical(visits[k][2]) = q}
VisitOf(visits, q) == CHOOSE k \in VisitsOf(visits, q) : TRUE

\* The callback a node is due.
CallbackFor(node) == IF node.kind = "dir" THEN "onDir" ELSE "onFile"

\* The sub-trees of the children of d are walked one after the other, in
\* the order listFiles gave the children.
InListingOrder(f, d, nodes, visits, env) ==
    \A m, n \in 1..Len(listFiles(f, d, env)) :
        m < n =>
            \A q1, q2 \in nodes :
                /\ Under(q1, Canonical(listFiles(f, d, env)[m]))
                /\ Under(q2, Canonical(listFiles(f, d, env)[n]))
                => VisitOf(visits, q1) < VisitOf(visits, q2)

WalkedOnce(h, nodes, env) ==
    /\ \A k \in 1..Len(h.visits) : Canonical(h.visits[k][2]) \in nodes
    /\ \A q \in nodes :
           /\ Cardinality(VisitsOf(h.visits, q)) = 1
           /\ h.visits[VisitOf(h.visits, q)][1] = CallbackFor(h.pre[q])
    /\ \A d, q \in nodes :
           StrictlyUnder(q, d) =>
               IF h.extra.order = "pre-order"
               THEN VisitOf(h.visits, d) < VisitOf(h.visits, q)
               ELSE VisitOf(h.visits, d) > VisitOf(h.visits, q)
    /\ \A d \in nodes :
           h.pre[d].kind = "dir" => InListingOrder(h.pre, d, nodes, h.visits, env)

\* C21: _traverseDirectory over a root that exists calls onFile once for
\* each file and onDir once for each directory at or under the root, and
\* nothing else; in pre-order a directory's onDir comes before every callback
\* for a node under it, in post-order after all of them; the children of a
\* directory are walked in the order listFiles gives them; over a root that
\* does not exist it makes no callback and returns the context as it was
\* given, the filesystem untouched.
C21_EachNodeOnce ==
    \A i \in Walks :
        IF exists(hist[i].pre, NewFile(hist[i].a))
        THEN WalkedOnce(hist[i], Subtree(hist[i].pre, NewFile(hist[i].a)), EnvOf(i))
        ELSE hist[i].visits = <<>> /\ hist[i].num = 0 /\ After(i) = hist[i].pre

\* A post-order walk, the listing descending, over a root that holds a
\* directory with a node in it and another child, the sizes added up.
C21_NestedPostOrder ==
    \E i \in Walks :
        /\ hist[i].extra.order = "post-order"
        /\ hist[i].extra.visitors = "size"
        /\ hist[i].fault.rev
        /\ hist[i].num > 0
        /\ \E d, q, c \in Subtree(hist[i].pre, NewFile(hist[i].a)) :
               /\ StrictlyUnder(d, Canonical(NewFile(hist[i].a)))
               /\ StrictlyUnder(q, d)
               /\ StrictlyUnder(c, Canonical(NewFile(hist[i].a)))
               /\ ~Under(c, d) /\ ~Under(d, c)

(***************************************************************************)
(* move: the rename, and the fallback.                                     *)
(***************************************************************************)
MoveSource(h) == _resolvePath(isSandboxed, h.a)
MoveDest(h) == _resolvePath(isSandboxed, h.b)

\* The calls of move whose two paths resolve.
Moves ==
    {i \in Calls : /\ hist[i].op = "move"
                   /\ MoveSource(hist[i]) # NullFile
                   /\ MoveDest(hist[i]) # NullFile}

\* What source.renameTo(destination) does in the i-th call, the parent of
\* the destination made.
Renamed(i) ==
    renameTo(WithParent(hist[i].pre, MoveDest(hist[i]), EnvOf(i)),
             MoveSource(hist[i]), MoveDest(hist[i]), EnvOf(i))

\* What this.copy(...) does in the i-th call after the rename failed.
FallbackCopy(i) ==
    copy(WithParent(hist[i].pre, MoveDest(hist[i]), EnvOf(i)), isSandboxed,
         AsUserPath(MoveSource(hist[i])), AsUserPath(MoveDest(hist[i])), EnvOf(i))

\* No node at or under the file in pre is missing from post.
NothingDeleted(pre, post, file) ==
    \A p \in DOMAIN pre : Under(p, Canonical(file)) => p \in DOMAIN post

\* C22: move of a source that does not exist returns false and has made
\* nothing, the destination's parent included; when the rename succeeds move
\* returns true and the filesystem is as the rename left it, nothing copied
\* and nothing deleted; when the rename fails the filesystem is first as copy
\* leaves it, and if copy returned false move returns false with no node of
\* the source deleted, while if copy returned true the source is removed and
\* move returns what remove returned.
C22_RenameThenFallback ==
    \A i \in Moves :
        IF ~exists(hist[i].pre, MoveSource(hist[i]))
        THEN hist[i].ret = "false" /\ After(i) = hist[i].pre
        ELSE IF Renamed(i).ok
        THEN hist[i].ret = "true" /\ After(i) = Renamed(i).fs
        ELSE IF FallbackCopy(i).ret # "true"
        THEN /\ hist[i].ret = "false"
             /\ After(i) = FallbackCopy(i).fs
             /\ NothingDeleted(hist[i].pre, After(i), MoveSource(hist[i]))
        ELSE /\ hist[i].ret = remove(FallbackCopy(i).fs, isSandboxed,
                                     AsUserPath(MoveSource(hist[i])), EnvOf(i)).ret
             /\ After(i) = remove(FallbackCopy(i).fs, isSandboxed,
                                  AsUserPath(MoveSource(hist[i])), EnvOf(i)).fs

\* The rename failed and copy returned false with files of a directory
\* already copied: move returned false and the source is all there.
C22_CopyFailedMidway ==
    \E i \in Moves :
        /\ isDirectory(hist[i].pre, MoveSource(hist[i]))
        /\ ~Renamed(i).ok
        /\ FallbackCopy(i).ret = "false"
        /\ FallbackCopy(i).fs # hist[i].pre
        /\ hist[i].ret = "false"

\* The rename failed, copy returned true and remove returned false.
C22_RemoveDecides ==
    \E i \in Moves :
        /\ exists(hist[i].pre, MoveSource(hist[i]))
        /\ ~Renamed(i).ok
        /\ FallbackCopy(i).ret = "true"
        /\ hist[i].ret = "false"

(***************************************************************************)
(* getDirectoryTree: the files the search conditions let through.          *)
(***************************************************************************)
\* The extensions search.extension asks for, in lower case.
ExtensionsAsked(opts) ==
    IF opts.isArray
    THEN {toLowerCase(opts.extensions[k]) : k \in 1..Len(opts.extensions)}
    ELSE {toLowerCase(opts.extension)}

\* The file at the canonical path q passes every condition that is set.
MeetsAll(f, q, opts) ==
    /\ (opts.isArray \/ opts.extension # <<>>) =>
           getExtension(q[Len(q)]) \in ExtensionsAsked(opts)
    /\ opts.name # <<>> => includes(toLowerCase(q[Len(q)]), toLowerCase(opts.name))
    /\ opts.regex # <<>> => RegExp_test(opts.regex, q[Len(q)])
    /\ (opts.content # <<>> \/ opts.contentRegex # <<>>) =>
           /\ getExtension(q[Len(q)]) \notin BINARY_EXTENSIONS
           /\ IF opts.contentRegex # <<>>
              THEN RegExp_test(opts.contentRegex, TextOf(f[q].data.bytes))
              ELSE includes(TextOf(f[q].data.bytes), opts.content)

FileLines(lines) == {k \in 2..Len(lines) : ~IsDirectoryLine(lines[k])}

FilesUnder(f, root) == {q \in DOMAIN f : StrictlyUnder(q, root) /\ f[q].kind = "file"}

\* C23: the tree getDirectoryTree returns has a line for a file under the
\* directory, at the file's depth and with its name, exactly when the file
\* passes every search condition that is set: its extension, in lower case,
\* is the extension asked for or one of the array asked for, in lower case;
\* its name in lower case holds search.name in lower case; its name matches
\* search.regex; and, when content or contentRegex is set, its extension is
\* none of the binary ones and its text matches contentRegex if that is set
\* and else holds content.  Each such file has one line.
C23_ListedIffAllPass ==
    \A c \in Calls :
        (hist[c].op = "getDirectoryTree" /\ hist[c].ret = "value") =>
            /\ {<<LevelOf(hist[c].lines[k]), NameOfLine(hist[c].lines[k])>> :
                    k \in FileLines(hist[c].lines)}
               = {<<Len(q) - Len(TreeRoot(c)), q[Len(q)]>> :
                    q \in {r \in FilesUnder(hist[c].pre, TreeRoot(c)) :
                              MeetsAll(hist[c].pre, r, hist[c].extra.opts)}}
            /\ Cardinality(FileLines(hist[c].lines))
               = Cardinality({r \in FilesUnder(hist[c].pre, TreeRoot(c)) :
                                 MeetsAll(hist[c].pre, r, hist[c].extra.opts)})

\* A tree made under an array of extensions in mixed case, a name, and both
\* content conditions: it lists a file and leaves out others, one of them
\* for its binary extension and one that holds content but does not match
\* contentRegex.
C23_SomePassSomeFail ==
    \E c \in Calls :
        /\ hist[c].op = "getDirectoryTree" /\ hist[c].ret = "value"
        /\ hist[c].extra.opts.isArray /\ hist[c].extra.opts.extensions # <<>>
        /\ hist[c].extra.opts.name # <<>> /\ hist[c].extra.opts.regex = <<>>
        /\ hist[c].extra.opts.content # <<>> /\ hist[c].extra.opts.contentRegex # <<>>
        /\ FileLines(hist[c].lines) # {}
        /\ \E q \in FilesUnder(hist[c].pre, TreeRoot(c)) :
               /\ getExtension(q[Len(q)]) \in BINARY_EXTENSIONS
               /\ getExtension(q[Len(q)]) \in ExtensionsAsked(hist[c].extra.opts)
        /\ \E q \in FilesUnder(hist[c].pre, TreeRoot(c)) :
               /\ getExtension(q[Len(q)]) \notin BINARY_EXTENSIONS
               /\ includes(TextOf(hist[c].pre[q].data.bytes), hist[c].extra.opts.content)
               /\ ~MeetsAll(hist[c].pre, q, [hist[c].extra.opts EXCEPT !.name = <<>>,
                                                                       !.isArray = FALSE])

(***************************************************************************)
(* getDirectoryTree: the branch characters of the lines.                   *)
(***************************************************************************)
TreeLines(lines) == 2..Len(lines)

\* No later line is an entry of the same directory as line k.
IsLastRendered(lines, k) == \A j \in TreeLines(lines) : ~Siblings(lines, k, j)

\* The character of line k in the column of depth d.
ColumnAt(lines, k, d) == lines[k][3 * (d - 1) + 1]

\* The line of the directory at depth d that line k is under.
AncestorAt(lines, k, d) ==
    CHOOSE m \in TreeLines(lines) :
        /\ m < k
        /\ LevelOf(lines[m]) = d
        /\ \A n \in TreeLines(lines) : (n < k /\ LevelOf(lines[n]) = d) => n <= m

\* The last line of each directory carries the corner, the others the tee.
CornerOnLast(lines) ==
    \A k \in TreeLines(lines) :
        ColumnAt(lines, k, LevelOf(lines[k]))
            = IF IsLastRendered(lines, k) THEN "L" ELSE "+"

\* The bar in the column of an ancestor is drawn exactly where lines of
\* that ancestor's directory are still to come.
BarsWhereOpen(lines) ==
    \A k \in TreeLines(lines) : \A d \in 1..(LevelOf(lines[k]) - 1) :
        (ColumnAt(lines, k, d) = "|") <=> ~IsLastRendered(lines, AncestorAt(lines, k, d))

Trees == {c \in Calls : hist[c].op = "getDirectoryTree" /\ hist[c].ret = "value"}

\* C24: in the tree getDirectoryTree returns, in every directory the last
\* line rendered for a child carries the corner and every other child line
\* the tee, also when sub-directories that are left out sort after the last
\* rendered child; and the bar in the column of an ancestor is drawn only
\* where that ancestor is not the last of its siblings.
C24_BranchCharacters ==
    \A c \in Trees : CornerOnLast(hist[c].lines) /\ BarsWhereOpen(hist[c].lines)

\* The first half alone: the corner on the last rendered line.
C24_CornerOnLast == \A c \in Trees : CornerOnLast(hist[c].lines)

\* The second half alone: bars only under ancestors with lines to come.
C24_BarsWhereOpen == \A c \in Trees : BarsWhereOpen(hist[c].lines)

\* What the lines do have: a line followed by another line of its directory
\* carries the tee, a line carries the tee or the corner in its own column,
\* and the bar in every column before it.
C24_TeeBeforeMore ==
    \A c \in Trees : \A k \in TreeLines(hist[c].lines) :
        /\ ~IsLastRendered(hist[c].lines, k) =>
               ColumnAt(hist[c].lines, k, LevelOf(hist[c].lines[k])) = "+"
        /\ ColumnAt(hist[c].lines, k, LevelOf(hist[c].lines[k])) \in {"+", "L"}
        /\ \A d \in 1..(LevelOf(hist[c].lines[k]) - 1) : ColumnAt(hist[c].lines, k, d) = "|"

(***************************************************************************)
(* copy, move, zip and unzip: the streams they open.                       *)
(***************************************************************************)
StreamCalls == {i \in Calls : hist[i].op \in {"copy", "move", "zip", "unzip"}}

\* C25: when copy, move, zip or unzip returns, it has closed every stream
\* it opened, whichever way it was left: the second stream failing to open,
\* a write failing during the byte copy, or the close() of another stream
\* throwing.
C25_AllStreamsClosed == \A i \in StreamCalls : hist[i].open = {}

\* The same for the calls in which no close() that is followed by another
\* close() throws: only such a throw leaves a stream open.
C25_ClosedUnlessCloseThrows ==
    \A i \in StreamCalls :
        hist[i].fault.throws \cap
            {"FileInputStream.close", "ZipOutputStream.close", "ZipInputStream.close"} = {}
        => hist[i].open = {}

\* A ZIP stream whose close() throws after it closed the stream beneath it
\* leaves nothing open.
C25_ClosedBeneath ==
    \A i \in StreamCalls :
        (hist[i].op \in {"zip", "unzip"} /\ hist[i].fault.beneath) => hist[i].open = {}

(***************************************************************************)
(* The walks, while another process deletes a node of the tree.            *)
(***************************************************************************)
Walkers == {"getStorageSize", "getDirectoryTree", "deleteDirectory", "copy", "zip"}

\* The calls during which a node was deleted from outside.
RaceCalls == {i \in Calls : hist[i].op \in Walkers /\ hist[i].fault.vanish.when # "never"}

\* The fault without the deletion from outside.
Calm(fault) == [fault EXCEPT !.vanish = NoFault.vanish]

\* What the i-th call returns from the filesystem f when nothing is deleted
\* from outside.
Unraced(i, f) ==
    CASE hist[i].op = "getStorageSize" ->
             getStorageSize(f, isSandboxed, hist[i].a, hist[i].extra.unit,
                            Env(Calm(hist[i].fault), SubSeq(hist, 1, i - 1)))
      [] hist[i].op = "getDirectoryTree" ->
             getDirectoryTree(f, isSandboxed, hist[i].a, hist[i].extra.opts,
                              Env(Calm(hist[i].fault), SubSeq(hist, 1, i - 1)))
      [] hist[i].op = "deleteDirectory" ->
             deleteDirectory(f, isSandboxed, hist[i].a,
                             Env(Calm(hist[i].fault), SubSeq(hist, 1, i - 1)))
      [] hist[i].op = "copy" ->
             copy(f, isSandboxed, hist[i].a, hist[i].b,
                  Env(Calm(hist[i].fault), SubSeq(hist, 1, i - 1)))
      [] OTHER ->
             zip(f, isSandboxed, hist[i].a, hist[i].b,
                 Env(Calm(hist[i].fault), SubSeq(hist, 1, i - 1)))

\* The call does not fail unless it fails without the deletion as well.
Tolerated(i) ==
    Unraced(i, hist[i].pre).ret # Sentinel(hist[i].op) => hist[i].ret # Sentinel(hist[i].op)

\* C26: when another process deletes a file or directory of the tree while
\* getStorageSize, getDirectoryTree, deleteDirectory, copy or zip walks it,
\* the call goes on over the nodes that remain and does not return its
\* failure value because of the deletion: it returns it only if it does so
\* without the deletion too.
C26_DeletionTolerated == \A i \in RaceCalls : Tolerated(i)

\* The same for a node deleted after listFiles returned it and before the
\* walk looked at it: it is passed over.
C26_PassedOverWhenListed ==
    \A i \in RaceCalls : hist[i].fault.vanish.when = "listed" => Tolerated(i)

\* The same for the two operations that only read, at either moment; and
\* getStorageSize then returns the size of what remains.
C26_ReadersTolerate ==
    \A i \in RaceCalls :
        hist[i].op \in {"getStorageSize", "getDirectoryTree"} =>
            /\ Tolerated(i)
            /\ (/\ hist[i].op = "getStorageSize"
                /\ hist[i].ret = "value"
                /\ StrictlyUnder(hist[i].fault.vanish.path,
                                 Canonical(_resolvePath(isSandboxed, hist[i].a))))
               => hist[i].num = Unraced(i, Gone(hist[i].pre, hist[i].fault.vanish.path)).num

(***************************************************************************)
(* copy: what becomes of the source.                                       *)
(***************************************************************************)
CopySource(h) == _resolvePath(isSandboxed, h.a)
CopyDest(h) == _resolvePath(isSandboxed, h.b)

\* The calls of copy whose paths resolve, the source existing.
Copies ==
    {i \in Calls : /\ hist[i].op = "copy"
                   /\ CopySource(hist[i]) # NullFile
                   /\ CopyDest(hist[i]) # NullFile
                   /\ exists(hist[i].pre, CopySource(hist[i]))}

\* C27: copy does not change the source: after a copy whose paths resolve,
\* the destination being the source file itself or a directory inside the
\* source included, every file and directory of the source is still there,
\* the files with their bytes.
C27_SourceUnchanged ==
    \A i \in Copies : Intact(hist[i].pre, After(i), CopySource(hist[i]))

\* The same for a destination that is not the source and not inside it.
C27_DestinationOutside ==
    \A i \in Copies :
        ~Under(Canonical(CopyDest(hist[i])), Canonical(CopySource(hist[i])))
        => Intact(hist[i].pre, After(i), CopySource(hist[i]))

\* The claim for a file copied onto itself alone.
C27_SelfCopyKeepsBytes ==
    \A i \in Copies :
        (/\ isFile(hist[i].pre, CopySource(hist[i]))
         /\ Canonical(CopyDest(hist[i])) = Canonical(CopySource(hist[i])))
        => Intact(hist[i].pre, After(i), CopySource(hist[i]))

(***************************************************************************)
(* copy of a directory: the nodes its walk visits.                         *)
(***************************************************************************)
DirectoryCopies == {i \in Copies : isDirectory(hist[i].pre, CopySource(hist[i]))}

\* The walk called its visitors for nodes the source held when copy began,
\* and not more often than there were such nodes.
WalkedSourceOnly(i) ==
    /\ \A k \in 1..Len(hist[i].visits) :
           Canonical(hist[i].visits[k][2]) \in Subtree(hist[i].pre, CopySource(hist[i]))
    /\ Len(hist[i].visits) <= Cardinality(Subtree(hist[i].pre, CopySource(hist[i])))

\* C28: copy of a directory comes to an end having visited no more nodes
\* than the source held when it began, also when the destination lies
\* inside the source: the directories copy makes during the walk are not
\* walked.
C28_WalksSourceOnly == \A i \in DirectoryCopies : WalkedSourceOnly(i)

\* The same for a destination that is not the source and not inside it;
\* a copy that returns true has then visited every node of the source once.
C28_OutsideWalksSourceOnly ==
    \A i \in DirectoryCopies :
        ~Under(Canonical(CopyDest(hist[i])), Canonical(CopySource(hist[i]))) =>
            /\ WalkedSourceOnly(i)
            /\ hist[i].ret = "true" =>
                   \A q \in Subtree(hist[i].pre, CopySource(hist[i])) :
                       Cardinality(VisitsOf(hist[i].visits, q)) = 1

(***************************************************************************)
(* move: what a move that returned true has left.                          *)
(***************************************************************************)
\* The node of the destination that stands for the node p of the source.
Counterpart(p, source, destination) ==
    Canonical(destination) \o SubSeq(p, Len(Canonical(source)) + 1, Len(p))

\* post holds under the destination every node pre held under the source:
\* every directory, and every file with its bytes.
HoldsAll(pre, source, post, destination) ==
    \A p \in Subtree(pre, source) :
        /\ Counterpart(p, source, destination) \in DOMAIN post
        /\ post[Counterpart(p, source, destination)].kind = pre[p].kind
        /\ pre[p].kind = "file" =>
               post[Counterpart(p, source, destination)].data = pre[p].data

\* The i-th call, a move, returned true.
MovedTrue(i) == i \in Moves /\ hist[i].ret = "true"

\* C29: after a move that returned true the source does not exist and the
\* destination holds everything the source held, whether the rename did it
\* or the copy and the removal, a destination directory that could not be
\* made during the copy included.
C29_MovedWhole ==
    \A i \in Calls :
        MovedTrue(i) =>
            /\ ~exists(After(i), MoveSource(hist[i]))
            /\ HoldsAll(hist[i].pre, MoveSource(hist[i]), After(i), MoveDest(hist[i]))

\* The same, for the moves the rename did.
C29_RenamedWhole ==
    \A i \in Calls :
        (MovedTrue(i) /\ Renamed(i).ok) =>
            /\ ~exists(After(i), MoveSource(hist[i]))
            /\ HoldsAll(hist[i].pre, MoveSource(hist[i]), After(i), MoveDest(hist[i]))

\* The same, for the moves of a directory the copy and the removal did,
\* to a destination that did not exist, the filesystem refusing nothing.
C29_UnrefusedWhole ==
    \A i \in Calls :
        (MovedTrue(i) /\ ~Renamed(i).ok /\ NothingRefused(i)
                  /\ ~exists(hist[i].pre, MoveDest(hist[i]))) =>
            /\ ~exists(After(i), MoveSource(hist[i]))
            /\ HoldsAll(hist[i].pre, MoveSource(hist[i]), After(i), MoveDest(hist[i]))

\* A move the copy and the removal did returned true, and a node of the
\* source is nowhere afterwards.
C29_LostInFallback ==
    \E i \in Calls :
        /\ MovedTrue(i) /\ ~Renamed(i).ok
        /\ ~exists(After(i), MoveSource(hist[i]))
        /\ ~HoldsAll(hist[i].pre, MoveSource(hist[i]), After(i), MoveDest(hist[i]))

(***************************************************************************)
(* deleteDirectory and remove: what is left when they return true.         *)
(***************************************************************************)
\* The calls of deleteDirectory and remove whose path resolves.
Deletions ==
    {i \in Calls : /\ hist[i].op \in {"deleteDirectory", "remove"}
                   /\ _resolvePath(isSandboxed, hist[i].a) # NullFile}

\* The nodes at and under the path of the i-th call that are there after it.
Survivors(i) == Subtree(After(i), _resolvePath(isSandboxed, hist[i].a))

\* C30: after a deleteDirectory or a remove that returned true nothing
\* exists at the path or under it; a call after which a node of the subtree
\* is still there (its delete failed, or it is in a directory whose listing
\* cannot be read and which is walked as if it were empty) returned false.
C30_TrueMeansGone ==
    \A i \in Deletions :
        /\ hist[i].ret = "true" => Survivors(i) = {}
        /\ Survivors(i) # {} => hist[i].ret = "false"

\* A directory whose listing cannot be read and which held something was
\* walked as if it were empty: what it held is still there, nodes beside it
\* were deleted, and the call returned false.
C30_UnreadableSurvives ==
    \E i \in Deletions :
        \E u \in hist[i].fault.unreadable :
            /\ u \in Survivors(i)
            /\ \E q \in Survivors(i) : StrictlyUnder(q, u)
            /\ hist[i].fault.deny = {}
            /\ After(i) # hist[i].pre
            /\ hist[i].ret = "false"

\* A directory that held files and directories was deleted whole, and the
\* call returned true.
C30_DeletedWhole ==
    \E i \in Deletions :
        /\ Cardinality(Subtree(hist[i].pre, _resolvePath(isSandboxed, hist[i].a))) > 2
        /\ Survivors(i) = {}
        /\ hist[i].ret = "true"

====
